---- MODULE Spec2Model ----
(***************************************************************************)
(* Query-understanding and response-routing engine of the Zaika restaurant *)
(* assistant (src/zaika_bot.py, class ZaikaAIAgent).                        *)
(*                                                                         *)
(* Strings are TLA+ strings; Len, \o and SubSeq are used on them the way   *)
(* Python uses len, + and slicing.  A request is typed fragment by         *)
(* fragment into `query` and then handed to generate_sophisticated_response*)
(* which normalizes it, extracts tags, classifies the intent and routes it *)
(* to a handler (Spec).  SpecNorm and SpecTags call the normalizer and the  *)
(* tag extractor on their own, as functions of the text alone; SpecClock   *)
(* the context enricher, as a function of the clock alone; SpecDietary the *)
(* dietary handler without a tag list.  SpecDirections asks the assistant  *)
(* with ZIP codes, SpecHistory asks one agent again and again, SpecLoad    *)
(* constructs the agent whatever the data files hold.  SpecOverlap asks    *)
(* the assistant with keywords of the later intents; SpecSpice and         *)
(* SpecGeneral call the spice handler and the general handler on their     *)
(* own, SpecSuggest the suggestion sentence.                               *)
(***************************************************************************)
EXTENDS Integers, Sequences, FiniteSets, TLC

VARIABLES
    query,          \* the raw request text typed so far
    nfrags,         \* how many fragments the request was typed in
    phase,          \* "input", "answered" (a response was returned), "corrected",
                    \* "recorrected" (the normalizer was called on its own, once or twice),
                    \* "tagged" (the tag extractor was called on its own), "handled" (a
                    \* handler was called on its own), "suggested" (so was
                    \* get_personalized_suggestion), "remembered" (the caller took note
                    \* of the answer)
    normalized,     \* what correct_and_understand_query returned when called on its own:
                    \* <<n(query)>>, then <<n(query), n(n(query))>>
    analysis,       \* the dict analyze_customer_intent returned, as it is when the call ends
    tags_returned,  \* the list extract_intent_tags returned, before any handler touched it
    handler,        \* the handler the router invoked
    used_default,   \* whether the router fell back on the default of handler_map.get
    response,       \* what the handler returned: the template chosen and its data
    clock,          \* the month and hour datetime.now() gave to the call that read it
    context,        \* what get_current_weather and get_time_of_day returned to that call
    files,          \* what each of the three data files next to the module holds
    agent,          \* the ZaikaAIAgent object: the attributes loaded at construction and
                    \* the two tables of the class
    earlier         \* an earlier request to this agent and how it was classified

\* what a call read from the clock and made of it
reading == <<clock, context>>

vars ==
    <<query, nfrags, phase, normalized, analysis, tags_returned, handler, used_default,
      response, clock, context, files, agent, earlier>>

\* what outlives a call: the files, the agent and what the caller remembers
standing == <<files, agent, earlier>>

(***************************************************************************)
(* Bounds of the model.                                                    *)
(***************************************************************************)
\* A request to the assistant or to the tag extractor is typed in at most MaxFrags
\* fragments, a request to the normalizer in at most MaxNormFrags.
MaxFrags == 2

MaxNormFrags == 3

(***************************************************************************)
(* Static tables of the class (src/zaika_bot.py:71-86, 127-177), in the    *)
(* insertion order of the dict literals, which is the order Python         *)
(* iterates them in.                                                       *)
(***************************************************************************)
ClassCORRECTIONS ==
  << <<"biriyani", "biryani">>, <<"biriani", "biryani">>, <<"briyani", "biryani">>,
     <<"kabob", "kabab">>, <<"kebab", "kabab">>, <<"kabeb", "kabab">>,
     <<"tikka", "tikka">>, <<"tika", "tikka">>, <<"teeka", "tikka">>,
     <<"naan", "naan">>, <<"nan", "naan">>, <<"nann", "naan">>,
     <<"daal", "dal">>, <<"dhal", "dal">>, <<"dhaal", "dal">>,
     <<"chiken", "chicken">>, <<"chikken", "chicken">>, <<"checken", "chicken">>,
     <<"vegitarian", "vegetarian">>, <<"vegeterian", "vegetarian">>,
     <<"spicey", "spicy">>, <<"spiccy", "spicy">>,
     <<"protien", "protein">>, <<"protine", "protein">>,
     <<"helathy", "healthy">>, <<"healty", "healthy">>,
     <<"diabetik", "diabetic">>, <<"diabetic", "diabetic">>,
     <<"wieght", "weight">>, <<"waight", "weight">>,
     <<"recomend", "recommend">>, <<"recomendation", "recommendation">>,
     <<"favrite", "favorite">>, <<"favourite", "favorite">> >>

ClassINTENT_KEYWORDS ==
  << [tag |-> "vegetarian", keywords |-> <<"veg", "vegetarian", "veggie", "plant-based">>],
     [tag |-> "vegan", keywords |-> <<"vegan", "plant-based", "no dairy", "no eggs">>],
     [tag |-> "gluten-free", keywords |-> <<"gluten free", "gluten-free", "no gluten">>],
     [tag |-> "halal", keywords |-> <<"halal">>],
     [tag |-> "protein", keywords |-> <<"protein", "high protein", "muscle", "workout">>],
     [tag |-> "low-carb", keywords |-> <<"low carb", "keto", "no carbs", "low sugar">>],
     [tag |-> "spicy", keywords |-> <<"spicy", "hot", "fire", "chili", "pepper">>],
     [tag |-> "mild", keywords |-> <<"mild", "not spicy", "kids", "children", "sensitive">>],
     [tag |-> "seafood", keywords |-> <<"fish", "seafood", "shrimp", "prawn">>],
     [tag |-> "meat", keywords |-> <<"non-veg", "meat", "chicken", "lamb", "beef", "goat", "kabab", "boti", "chop", "seekh", "tikka", "wings">>],
     [tag |-> "dessert", keywords |-> <<"dessert", "sweet", "mithai", "kheer", "gulab", "jalebi", "halwa", "rasmalai">>],
     [tag |-> "drink", keywords |-> <<"drink", "beverage", "lassi", "chai", "tea", "juice", "soda", "coffee", "sharbat">>],
     [tag |-> "bbq", keywords |-> <<"bbq", "barbecue", "grill", "tandoori", "tandoor", "smoked">>],
     [tag |-> "biryani", keywords |-> <<"biryani", "rice", "pulao">>],
     [tag |-> "kids", keywords |-> <<"kids", "children", "child", "family", "mild">>],
     [tag |-> "healthy", keywords |-> <<"healthy", "light", "low calorie", "diet", "fresh", "salad", "soup">>],
     [tag |-> "family", keywords |-> <<"family", "group", "sharing", "platter", "combo">>],
     [tag |-> "nut-free", keywords |-> <<"nut free", "nut-free", "no nuts", "allergy">>],
     [tag |-> "dairy-free", keywords |-> <<"dairy free", "dairy-free", "no dairy", "lactose">>],
     [tag |-> "comfort", keywords |-> <<"comfort", "comfort food", "home style", "homestyle", "classic", "traditional">>],
     [tag |-> "street", keywords |-> <<"street food", "chaat", "pakora", "samosa", "roll", "wrap">>],
     [tag |-> "chef", keywords |-> <<"chef's special", "special", "signature", "exclusive">>],
     [tag |-> "breakfast", keywords |-> <<"breakfast", "morning", "paratha", "chai", "omelette">>],
     [tag |-> "lunch", keywords |-> <<"lunch", "midday", "noon">>],
     [tag |-> "dinner", keywords |-> <<"dinner", "evening", "night">>],
     [tag |-> "brunch", keywords |-> <<"brunch", "late morning">>],
     [tag |-> "appetizer", keywords |-> <<"appetizer", "starter", "snack", "small plate">>],
     [tag |-> "soup", keywords |-> <<"soup", "shorba">>],
     [tag |-> "salad", keywords |-> <<"salad", "greens">>],
     [tag |-> "curry", keywords |-> <<"curry", "masala", "korma", "karahi">>],
     [tag |-> "grill", keywords |-> <<"grill", "grilled", "tandoor", "bbq">>],
     [tag |-> "rice", keywords |-> <<"rice", "biryani", "pulao">>],
     [tag |-> "bread", keywords |-> <<"bread", "naan", "roti", "paratha", "kulcha">>],
     [tag |-> "paratha", keywords |-> <<"paratha">>],
     [tag |-> "naan", keywords |-> <<"naan">>],
     [tag |-> "roti", keywords |-> <<"roti">>],
     [tag |-> "festive", keywords |-> <<"festive", "holiday", "eid", "ramadan", "diwali", "celebration", "party", "special occasion">>],
     [tag |-> "seasonal", keywords |-> <<"seasonal", "season", "fresh", "in season">>],
     [tag |-> "summer", keywords |-> <<"summer", "hot day", "warm", "sunny">>],
     [tag |-> "winter", keywords |-> <<"winter", "cold", "chilly", "snow", "rainy", "monsoon">>],
     [tag |-> "refreshing", keywords |-> <<"refreshing", "cooling", "cold drink", "iced">>],
     [tag |-> "warming", keywords |-> <<"warming", "hot", "spicy", "comfort">>],
     [tag |-> "hearty", keywords |-> <<"hearty", "rich", "filling", "robust">>],
     [tag |-> "light", keywords |-> <<"light", "fresh", "not heavy", "simple">>],
     [tag |-> "crunchy", keywords |-> <<"crunchy", "crispy">>],
     [tag |-> "creamy", keywords |-> <<"creamy", "rich", "smooth">>],
     [tag |-> "tangy", keywords |-> <<"tangy", "sour", "zesty">>],
     [tag |-> "savory", keywords |-> <<"savory", "umami">>],
     [tag |-> "sweet", keywords |-> <<"sweet", "dessert", "mithai">>] >>

\* self.CORRECTIONS and self.INTENT_KEYWORDS: the tables as the agent has them
CORRECTIONS == agent.CORRECTIONS

INTENT_KEYWORDS == agent.INTENT_KEYWORDS

(***************************************************************************)
(* String primitives of Python used by the engine.                         *)
(***************************************************************************)
Char(s, i) == SubSeq(s, i, i)

Suffix(s, i) == SubSeq(s, i, Len(s))

UpperLetters == "ABCDEFGHIJKLMNOPQRSTUVWXYZ"

LowerLetters == "abcdefghijklmnopqrstuvwxyz"

Digits == "0123456789"

\* str.lower() on one character
LowerMap ==
    [c \in {Char(UpperLetters, i) : i \in 1..Len(UpperLetters)} |->
        Char(LowerLetters, CHOOSE i \in 1..Len(UpperLetters) : Char(UpperLetters, i) = c)]

LowerChar(c) == IF c \in DOMAIN LowerMap THEN LowerMap[c] ELSE c

RECURSIVE Lower(_)
\* str.lower(): every character lowered, the halves of the string one after the other
Lower(s) ==
    IF Len(s) = 0 THEN ""
    ELSE IF Len(s) = 1 THEN LowerChar(s)
         ELSE Lower(SubSeq(s, 1, Len(s) \div 2)) \o Lower(Suffix(s, Len(s) \div 2 + 1))

Whitespace == {" ", "\t", "\n", "\r"}

\* the index of the first character of s that is in S, 0 when there is none
FirstIn(s, S) ==
    IF \E i \in 1..Len(s) : Char(s, i) \in S
    THEN CHOOSE i \in 1..Len(s) :
            Char(s, i) \in S /\ \A j \in 1..(i - 1) : Char(s, j) \notin S
    ELSE 0

\* the index of the first character of s that is not in S, 0 when there is none
FirstNotIn(s, S) ==
    IF \E i \in 1..Len(s) : Char(s, i) \notin S
    THEN CHOOSE i \in 1..Len(s) :
            Char(s, i) \notin S /\ \A j \in 1..(i - 1) : Char(s, j) \in S
    ELSE 0

\* the index of the last character of s that is not in S, 0 when there is none
LastNotIn(s, S) ==
    IF \E i \in 1..Len(s) : Char(s, i) \notin S
    THEN CHOOSE i \in 1..Len(s) :
            Char(s, i) \notin S /\ \A j \in (i + 1)..Len(s) : Char(s, j) \in S
    ELSE 0

\* str.strip(): leading and trailing whitespace removed
Strip(s) ==
    IF FirstNotIn(s, Whitespace) = 0 THEN ""
    ELSE SubSeq(s, FirstNotIn(s, Whitespace), LastNotIn(s, Whitespace))

\* whether p occurs in s at index i
OccursAt(s, p, i) ==
    i >= 1 /\ i + Len(p) - 1 <= Len(s) /\ SubSeq(s, i, i + Len(p) - 1) = p

\* the Python test `p in s` on strings
Contains(s, p) == \E i \in 1..(Len(s) - Len(p) + 1) : OccursAt(s, p, i)

\* s.find(p) + 1: the index of the leftmost occurrence of p in s, 0 when there is none
Find(s, p) ==
    IF Contains(s, p)
    THEN CHOOSE i \in 1..(Len(s) - Len(p) + 1) :
            OccursAt(s, p, i) /\ \A j \in 1..(i - 1) : ~OccursAt(s, p, j)
    ELSE 0

\* Replace as it would be with str.replace(old, new, 1): the first occurrence only
ReplaceFirstOnly(s, old, new) ==
    IF Find(s, old) = 0 THEN s
    ELSE SubSeq(s, 1, Find(s, old) - 1) \o new \o Suffix(s, Find(s, old) + Len(old))

RECURSIVE Replace(_, _, _)
\* s.replace(old, new): every non-overlapping occurrence of old, scanning from the left
Replace(s, old, new) ==
    LET at == Find(s, old)
    IN IF at = 0 THEN s
       ELSE SubSeq(s, 1, at - 1) \o new \o Replace(Suffix(s, at + Len(old)), old, new)

\* the characters the regular expression \w matches
WordChars ==
    LET all == LowerLetters \o UpperLetters \o Digits \o "_"
    IN {Char(all, i) : i \in 1..Len(all)}

RECURSIVE FindAllWords(_)
\* re.findall(r'\w+', s): the maximal runs of word characters, left to right
FindAllWords(s) ==
    LET b == FirstIn(s, WordChars)
        rest == Suffix(s, b)
        e == FirstNotIn(rest, WordChars)
    IN IF b = 0 THEN <<>>
       ELSE IF e = 0 THEN <<rest>>
            ELSE <<SubSeq(rest, 1, e - 1)>> \o FindAllWords(Suffix(rest, e))

(***************************************************************************)
(* difflib.get_close_matches(word, possibilities, n=1, cutoff=0.8) as the  *)
(* standard library computes it: SequenceMatcher with seq2 = word and      *)
(* seq1 = each possibility, accepted when real_quick_ratio, quick_ratio    *)
(* and ratio all reach the cutoff.  No character is junk (word tokens      *)
(* are far shorter than the 200 items autojunk needs).                     *)
(***************************************************************************)
\* cutoff=0.8, kept as the fraction CutoffNum / CutoffDen
CutoffNum == 8

CutoffDen == 10

\* _calculate_ratio(matches, length) >= cutoff, i.e. 2.0 * matches / length >= 0.8
ReachesCutoff(matches, length) ==
    IF length = 0 THEN TRUE ELSE 2 * matches * CutoffDen >= CutoffNum * length

Min(x, y) == IF x <= y THEN x ELSE y

\* SequenceMatcher.real_quick_ratio() >= cutoff
RealQuickOK(a, b) == ReachesCutoff(Min(Len(a), Len(b)), Len(a) + Len(b))

RECURSIVE QuickMatches(_, _)
\* the matches of SequenceMatcher.quick_ratio(): each character of a takes one
\* still unused equal character of b, i.e. the size of the intersection of the two
\* strings taken as multisets of characters
QuickMatches(a, b) ==
    LET at == Find(b, Char(a, 1))
    IN IF a = "" THEN 0
       ELSE IF at = 0 THEN QuickMatches(Suffix(a, 2), b)
            ELSE 1 + QuickMatches(Suffix(a, 2), SubSeq(b, 1, at - 1) \o Suffix(b, at + 1))

\* SequenceMatcher.quick_ratio() >= cutoff
QuickOK(a, b) == ReachesCutoff(QuickMatches(a, b), Len(a) + Len(b))

\* whether a and b have a common block of k characters
HasBlock(a, b, k) == \E i \in 1..(Len(a) - k + 1) : Contains(b, SubSeq(a, i, i + k - 1))

\* SequenceMatcher.find_longest_match over all of a and b: <<i, j, k>> with
\* a[i..i+k-1] = b[j..j+k-1], k the largest possible, of those blocks the one
\* starting earliest in a, and of those the one starting earliest in b
LongestMatch(a, b) ==
    LET k == CHOOSE n \in 0..Min(Len(a), Len(b)) :
                 HasBlock(a, b, n) /\ ~HasBlock(a, b, n + 1)
        i == CHOOSE m \in 1..(Len(a) - k + 1) :
                 /\ Contains(b, SubSeq(a, m, m + k - 1))
                 /\ \A l \in 1..(m - 1) : ~Contains(b, SubSeq(a, l, l + k - 1))
    IN IF k = 0 THEN <<1, 1, 0>> ELSE <<i, Find(b, SubSeq(a, i, i + k - 1)), k>>

RECURSIVE MatchingCount(_, _)
\* the total size of SequenceMatcher.get_matching_blocks(): the longest block,
\* then recursively the pieces to its left and the pieces to its right
MatchingCount(a, b) ==
    LET m == LongestMatch(a, b)
    IN IF m[3] = 0 THEN 0
       ELSE m[3]
            + MatchingCount(SubSeq(a, 1, m[1] - 1), SubSeq(b, 1, m[2] - 1))
            + MatchingCount(Suffix(a, m[1] + m[3]), Suffix(b, m[2] + m[3]))

\* SequenceMatcher.ratio() >= cutoff
RatioOK(a, b) == ReachesCutoff(MatchingCount(a, b), Len(a) + Len(b))

\* the possibilities get_close_matches keeps before it picks the n=1 best:
\* the result is a non-empty list exactly when this set is non-empty
get_close_matches(word, possibilities) ==
    {x \in {possibilities[i] : i \in 1..Len(possibilities)} :
        RealQuickOK(x, word) /\ QuickOK(x, word) /\ RatioOK(x, word)}

(***************************************************************************)
(* The Intent enumeration, in declaration order.                           *)
(***************************************************************************)
Intent ==
    << "MENU_BROWSING", "BESTSELLERS", "DIETARY_SPECIFIC", "SPICE_CONCERN", "GROUP_DINING",
       "QUICK_SERVICE", "CULTURAL_CURIOSITY", "VALUE_SEEKING", "GENERAL_INQUIRY" >>

IntentMembers == {Intent[i] : i \in 1..Len(Intent)}

(***************************************************************************)
(* Query Normalizer.                                                       *)
(***************************************************************************)
RECURSIVE ApplyCorrections(_, _)
\* the loop `for wrong, correct in self.CORRECTIONS.items()` from entry i on
ApplyCorrections(s, i) ==
    IF i > Len(CORRECTIONS) \/ s = "" THEN s
    ELSE ApplyCorrections(Replace(s, CORRECTIONS[i][1], CORRECTIONS[i][2]), i + 1)

\* correct_and_understand_query as it would be without .lower()
correct_without_lower(q) == ApplyCorrections(Strip(q), 1)

correct_and_understand_query(q) == ApplyCorrections(Strip(Lower(q)), 1)

(***************************************************************************)
(* Tag Extractor.                                                          *)
(***************************************************************************)
\* KeywordHits as it would be without `or kw in query_lower`
KeywordHitsFuzzyOnly(kw, words, query_lower) == get_close_matches(kw, words) # {}

\* whether x is an element of the list l
InSeq(x, l) == \E i \in 1..Len(l) : l[i] = x

\* the test of one keyword: `matches or kw in query_lower`
KeywordHits(kw, words, query_lower) ==
    get_close_matches(kw, words) # {} \/ Contains(query_lower, kw)

\* TagSet as it would be if a keyword were looked up among the words of the query only
\* (`kw in words`)
TagSetOfWords(query_lower, words) ==
    {INTENT_KEYWORDS[t].tag : t \in
        {t \in 1..Len(INTENT_KEYWORDS) :
            \E k \in 1..Len(INTENT_KEYWORDS[t].keywords) :
                InSeq(INTENT_KEYWORDS[t].keywords[k], words)}}

\* the set `tags` when the loops end
TagSet(query_lower, words) ==
    {INTENT_KEYWORDS[t].tag : t \in
        {t \in 1..Len(INTENT_KEYWORDS) :
            \E k \in 1..Len(INTENT_KEYWORDS[t].keywords) :
                KeywordHits(INTENT_KEYWORDS[t].keywords[k], words, query_lower)}}

\* the tags of INTENT_KEYWORDS, in the order of the dict
TagNames == [t \in 1..Len(INTENT_KEYWORDS) |-> INTENT_KEYWORDS[t].tag]

\* list(tags): the members of the set, each once.  Python fixes no order for a
\* set of strings; the model lists them in the order of INTENT_KEYWORDS.
ListOf(S) == SelectSeq(TagNames, LAMBDA t : t \in S)

extract_intent_tags(q) ==
    LET query_lower == Lower(q)
        words == FindAllWords(query_lower)
    IN ListOf(TagSet(query_lower, words))

(***************************************************************************)
(* Intent Classifier.                                                      *)
(***************************************************************************)
RECURSIVE AllKeywords(_)
\* sum(self.INTENT_KEYWORDS.values(), []) from entry t on
AllKeywords(t) ==
    IF t > Len(INTENT_KEYWORDS) THEN <<>>
    ELSE INTENT_KEYWORDS[t].keywords \o AllKeywords(t + 1)

\* TableAfterSum as it would be if the lists were joined in place into the first one
\* (functools.reduce(operator.iadd, ...) in place of sum(..., []))
TableAfterSumInPlace(table) == [table EXCEPT ![1].keywords = AllKeywords(1)]

\* the table after sum(self.INTENT_KEYWORDS.values(), []) of line 445: sum adds every
\* list to a new list, the lists of the table are left as they are
TableAfterSum(table) == table

KeywordsOf(tag) ==
    INTENT_KEYWORDS[CHOOSE t \in 1..Len(INTENT_KEYWORDS) : INTENT_KEYWORDS[t].tag = tag].keywords

\* TableAfterConcat as it would be with the 'spicy' list extended in place (+=)
TableAfterConcatInPlace(table) ==
    [t \in 1..Len(table) |->
        IF table[t].tag = "spicy"
        THEN [table[t] EXCEPT !.keywords = KeywordsOf("spicy") \o KeywordsOf("mild")]
        ELSE table[t]]

\* the table after self.INTENT_KEYWORDS['spicy'] + self.INTENT_KEYWORDS['mild'] of line
\* 446: + builds a new list, the two lists of the table are left as they are
TableAfterConcat(table) == table

\* intent_map as it would be with the SPICE_CONCERN entry written before the
\* DIETARY_SPECIFIC entry
intent_map_spice_first ==
    << [intent |-> "MENU_BROWSING",
        words |-> <<"menu", "what do you have", "what do you serve", "options", "choices">>],
       [intent |-> "BESTSELLERS",
        words |-> <<"best", "popular", "recommend", "signature", "famous", "bestseller",
                    "what's good", "trending", "must try", "specialty">>],
       [intent |-> "SPICE_CONCERN", words |-> KeywordsOf("spicy") \o KeywordsOf("mild")],
       [intent |-> "DIETARY_SPECIFIC", words |-> AllKeywords(1)],
       [intent |-> "GROUP_DINING",
        words |-> <<"party", "group", "family", "people", "sharing", "catering">>],
       [intent |-> "QUICK_SERVICE",
        words |-> <<"quick", "fast", "takeout", "pickup", "rush", "lunch break">>],
       [intent |-> "CULTURAL_CURIOSITY",
        words |-> <<"pakistani", "indian", "authentic", "traditional", "culture", "clay oven">>],
       [intent |-> "VALUE_SEEKING",
        words |-> <<"cheap", "affordable", "budget", "value", "deal", "price">>] >>

\* the dict literal intent_map, in insertion order
intent_map ==
    << [intent |-> "MENU_BROWSING",
        words |-> <<"menu", "what do you have", "what do you serve", "options", "choices">>],
       [intent |-> "BESTSELLERS",
        words |-> <<"best", "popular", "recommend", "signature", "famous", "bestseller",
                    "what's good", "trending", "must try", "specialty">>],
       [intent |-> "DIETARY_SPECIFIC", words |-> AllKeywords(1)],
       [intent |-> "SPICE_CONCERN", words |-> KeywordsOf("spicy") \o KeywordsOf("mild")],
       [intent |-> "GROUP_DINING",
        words |-> <<"party", "group", "family", "people", "sharing", "catering">>],
       [intent |-> "QUICK_SERVICE",
        words |-> <<"quick", "fast", "takeout", "pickup", "rush", "lunch break">>],
       [intent |-> "CULTURAL_CURIOSITY",
        words |-> <<"pakistani", "indian", "authentic", "traditional", "culture", "clay oven">>],
       [intent |-> "VALUE_SEEKING",
        words |-> <<"cheap", "affordable", "budget", "value", "deal", "price">>] >>

\* AnyWordIn as it would be if a keyword had to be one of the words of the text
AnyWordIsWord(words, text) == \E w \in 1..Len(words) : InSeq(words[w], FindAllWords(text))

\* any(word in corrected_query for word in words)
AnyWordIn(words, text) == \E w \in 1..Len(words) : Contains(text, words[w])

\* detected[intent] for the i-th entry of intent_map
Detected(i, corrected_query) == AnyWordIn(intent_map[i].words, corrected_query)

RECURSIVE AllIntents(_, _)
\* [intent for intent, found in detected.items() if found] from entry i on
AllIntents(i, corrected_query) ==
    IF i > Len(intent_map) THEN <<>>
    ELSE (IF Detected(i, corrected_query) THEN <<intent_map[i].intent>> ELSE <<>>)
         \o AllIntents(i + 1, corrected_query)

\* PrimaryIntent as it would be if the last detected intent were taken
PrimaryIntentLast(all_intents) ==
    IF all_intents # <<>> THEN all_intents[Len(all_intents)] ELSE "GENERAL_INQUIRY"

\* PrimaryIntent as it would be with next(...) given the default None
PrimaryIntentNoDefault(all_intents) ==
    IF all_intents # <<>> THEN all_intents[1] ELSE "None"

\* next((intent for intent, found in detected.items() if found), Intent.GENERAL_INQUIRY)
PrimaryIntent(all_intents) ==
    IF all_intents # <<>> THEN all_intents[1] ELSE "GENERAL_INQUIRY"

\* Confidence as it would be with > 2 for >= 2
ConfidenceAboveTwo(n) == IF n > 2 THEN "high" ELSE IF n = 1 THEN "medium" ELSE "low"

\* 'high' if sum(detected.values()) >= 2 else 'medium' if ... == 1 else 'low'
Confidence(n) == IF n >= 2 THEN "high" ELSE IF n = 1 THEN "medium" ELSE "low"

analyze_customer_intent(q) ==
    LET corrected_query == correct_and_understand_query(q)
        tags == extract_intent_tags(corrected_query)
        all_intents == AllIntents(1, corrected_query)
    IN [corrected_query |-> corrected_query,
        primary_intent  |-> PrimaryIntent(all_intents),
        all_intents     |-> all_intents,
        confidence      |-> Confidence(Len(all_intents)),
        tags            |-> tags]

(***************************************************************************)
(* Context Enricher.                                                       *)
(***************************************************************************)
\* get_current_weather as it would be with December left out of the winter months
get_current_weather_short_winter(month) ==
    IF month \in {1, 2} THEN [season |-> "winter", condition |-> "cold"]
    ELSE IF month \in {6, 7, 8} THEN [season |-> "summer", condition |-> "hot"]
    ELSE [season |-> IF month \in {3, 4, 5} THEN "spring" ELSE "fall", condition |-> "mild"]

\* get_current_weather(), with datetime.now().month = month
get_current_weather(month) ==
    IF month \in {12, 1, 2} THEN [season |-> "winter", condition |-> "cold"]
    ELSE IF month \in {6, 7, 8} THEN [season |-> "summer", condition |-> "hot"]
    ELSE [season |-> IF month \in {3, 4, 5} THEN "spring" ELSE "fall", condition |-> "mild"]

\* get_time_of_day as it would be with `now <= 11` for breakfast
get_time_of_day_long_breakfast(hour) ==
    IF 5 <= hour /\ hour <= 11 THEN "breakfast"
    ELSE IF 11 <= hour /\ hour < 16 THEN "lunch"
    ELSE IF 16 <= hour /\ hour < 22 THEN "dinner"
    ELSE "late night"

\* get_time_of_day(), with datetime.now().hour = hour
get_time_of_day(hour) ==
    IF 5 <= hour /\ hour < 11 THEN "breakfast"
    ELSE IF 11 <= hour /\ hour < 16 THEN "lunch"
    ELSE IF 16 <= hour /\ hour < 22 THEN "dinner"
    ELSE "late night"

\* whether x is an element of the list l (the Python test `x in l`)
InList(x, l) == \E i \in 1..Len(l) : l[i] = x

\* get_personalized_suggestion as it would be with the time of day tested before the
\* weather
get_personalized_suggestion_time_first(tags, weather, time_of_day) ==
    IF time_of_day = "breakfast" THEN "time:breakfast"
    ELSE IF time_of_day = "lunch" THEN "time:lunch"
    ELSE IF time_of_day = "dinner" THEN "time:dinner"
    ELSE IF time_of_day = "late night" THEN "time:late night"
    ELSE IF weather.condition = "cold" THEN "weather:cold"
    ELSE IF weather.condition = "hot" THEN "weather:hot"
    ELSE IF weather.season = "summer" THEN "season:summer"
    ELSE IF weather.season = "winter" THEN "season:winter"
    ELSE IF InList("festive", tags) \/ InList("holiday", tags) THEN "festive"
    ELSE "generic"

\* get_personalized_suggestion: which of its sentences is returned
get_personalized_suggestion(tags, weather, time_of_day) ==
    IF weather.condition = "cold" THEN "weather:cold"
    ELSE IF weather.condition = "hot" THEN "weather:hot"
    ELSE IF weather.season = "summer" THEN "season:summer"
    ELSE IF weather.season = "winter" THEN "season:winter"
    ELSE IF time_of_day = "breakfast" THEN "time:breakfast"
    ELSE IF time_of_day = "lunch" THEN "time:lunch"
    ELSE IF time_of_day = "dinner" THEN "time:dinner"
    ELSE IF time_of_day = "late night" THEN "time:late night"
    ELSE IF InList("festive", tags) \/ InList("holiday", tags) THEN "festive"
    ELSE "generic"

\* the context as it would be if the weather stub reported every month as mild
CurrentContextAlwaysMild(month, hour) ==
    [weather |-> [get_current_weather(month) EXCEPT !.condition = "mild"],
     time_of_day |-> get_time_of_day(hour)]

\* weather = self.get_current_weather(); time_of_day = self.get_time_of_day()
CurrentContext(month, hour) ==
    [weather |-> get_current_weather(month), time_of_day |-> get_time_of_day(hour)]

(***************************************************************************)
(* Reference data.  A JSON value is a record whose field json says whether  *)
(* it is an object or an array.  The dict of _default_menu_data() is given *)
(* by its items, section by section in the order of the dict (the          *)
(* typographic apostrophe of one description is written ', the dashes of   *)
(* the review texts -).                                                    *)
(***************************************************************************)
_default_menu_data ==
  [json |-> "object", items |->
  << [section |-> "specialties", name |-> "Goat Paya",
      description |-> "Traditional slow-cooked goat trotters in a rich, spiced broth. A delicacy for special occasions."],
     [section |-> "specialties", name |-> "Beef Seekh Kabab",
      description |-> "Juicy, spiced ground beef skewers grilled to perfection in the tandoor."],
     [section |-> "specialties", name |-> "Daal Makhni",
      description |-> "Slow-simmered black lentils and kidney beans in rich, creamy tomato curry - a vegetarian masterpiece."],
     [section |-> "specialties", name |-> "Chicken Kabab Roll",
      description |-> "Tender chicken kabab wrapped in fresh naan with house sauces."],
     [section |-> "specialties", name |-> "Lamb Chops",
      description |-> "Sizzling lamb chops marinated in Zaika's signature spices and grilled to perfection."],
     [section |-> "signature_bestsellers", name |-> "Zaika's Chicken Mix Grill",
      description |-> "Our crown jewel: Six distinct BBQ preparations on one platter - achari boti, malai boti, tikka boti, seekh kabab, bihari, and hariyali boti"],
     [section |-> "signature_bestsellers", name |-> "Chicken Biryani",
      description |-> "Aromatic basmati rice layered with tender marinated chicken, slow-cooked with traditional spices"],
     [section |-> "signature_bestsellers", name |-> "Dal Makhni",
      description |-> "Slow-simmered black lentils and kidney beans in rich, creamy tomato curry - a vegetarian masterpiece"],
     [section |-> "clay_oven_bbq", name |-> "Chicken Malai Boti",
      description |-> "Cream-marinated chicken breast cubes, mild and luxuriously tender"],
     [section |-> "clay_oven_bbq", name |-> "Chicken Tikka Boti",
      description |-> "Bold, aromatic chicken breast cubes with traditional red spice marinade"],
     [section |-> "comfort_curries", name |-> "Palak Paneer",
      description |-> "Fresh spinach curry with soft paneer cubes - nutrition meets indulgence"],
     [section |-> "comfort_curries", name |-> "Lahori Channa",
      description |-> "Chickpeas in robust tomato-onion gravy with warming Lahori spices"],
     [section |-> "beverages", name |-> "Mango Lassi",
      description |-> "Creamy yogurt drink blended with sweet mango - our Instagram star"],
     [section |-> "beverages", name |-> "Kashmiri Chai",
      description |-> "Pink tea from the Kashmir valley - delicate, aromatic, and Instagram-worthy"] >>]

\* the dict literal _default_review_insights() returns
_default_review_insights ==
    [json |-> "object",
     top_praise |->
        << "Authentic flavors that transport you to Pakistan",
           "Generous portions that easily feed 2-3 people",
           "Clay oven cooking creates amazing smoky flavors",
           "Staff genuinely cares about dietary restrictions",
           "Best Pakistani food in Edison/Central NJ area",
           "This gem of a restaurant can really satisfy your cravings. All the items were placed on time and were fresh. Needless to say, I have added this place to my favorites already. - Mumtaz Burki",
           "It has been a long time since we had authentic Pakistani Cuisine. Visiting Zaika was a good choice we made one fine evening. This place serves delicious food. We felt at home by the amazing service of the friendly staff who were polite and never took a step back to explain all about their menu. - Jawaid Qayyum" >>,
     trending_compliments |->
        << "Instagram-worthy presentation",
           "Mild options perfect for kids",
           "Great value for money",
           "Accommodating to spice preferences" >>,
     common_questions_resolved |->
        << "Yes, all meat is certified halal",
           "We can adjust spice levels for any dish",
           "Large portions - perfect for sharing",
           "Extensive vegetarian menu available",
           "Clay oven gives unique smoky flavor you can't get at home" >>]

\* the list literal _default_trending_dishes() returns
_default_trending_dishes ==
    [json |-> "array",
     elements |-> << "Zaika's Chicken Mix Grill",
                     "Mango Lassi",
                     "Chicken Biryani",
                     "Dal Makhni",
                     "Garlic Naan" >>]

\* GOOGLE_PROFILE['review_snippets']
review_snippets ==
    << "Amazing food and great service! The BBQ platter is a must-try.",
       "Authentic Pakistani flavors, generous portions, and friendly staff.",
       "Best biryani in Edison. Will definitely come back!",
       "Vegetarian options are delicious and filling." >>

\* self.menu_data
menu_data == agent.menu_data

\* the items of every section of the menu, in the order the loops of lines 603-604
\* reach them
MenuItems == IF "items" \in DOMAIN menu_data THEN menu_data.items ELSE <<>>

\* item_text = (name + ' ' + description).lower()
ItemText(item) == Lower(item.name \o " " \o item.description)

\* item_tags of one item: the tags with a keyword contained in item_text
ItemTagsOf(item, table) ==
    {table[t].tag : t \in
        {t \in 1..Len(table) : AnyWordIn(table[t].keywords, ItemText(item))}}

\* item_tags of every item of the default menu under the table of the class
DefaultItemTags ==
    [i \in 1..Len(_default_menu_data.items) |->
        ItemTagsOf(_default_menu_data.items[i], ClassINTENT_KEYWORDS)]

\* item_tags of every item of the menu, by position (those of the default menu under
\* the table of the class are worked out once)
ItemTags ==
    IF menu_data = _default_menu_data /\ INTENT_KEYWORDS = ClassINTENT_KEYWORDS
    THEN DefaultItemTags
    ELSE [i \in 1..Len(MenuItems) |-> ItemTagsOf(MenuItems[i], INTENT_KEYWORDS)]

(***************************************************************************)
(* Handlers.  A response is the template a handler returned with the data  *)
(* interpolated into it: the dishes listed, the suggestion sentence, the   *)
(* location of a directions link.                                          *)
(***************************************************************************)
\* kind: the template; dishes: the names listed; suggestion: the sentence of
\* get_personalized_suggestion; tags: the handler's list `tags` when it returned;
\* origin and link: the user_location and the URL of a directions reply
Response(kind) ==
    [kind |-> kind, dishes |-> <<>>, suggestion |-> "", tags |-> <<>>, origin |-> "",
     link |-> ""]

NoResponse == Response("none")

\* the appends of lines 510-515 to the list `tags`
AppendMissing(l, x) == IF InList(x, l) THEN l ELSE Append(l, x)

WithContext(tags, weather, time_of_day) ==
    AppendMissing(AppendMissing(AppendMissing(tags, weather.season), weather.condition),
                  time_of_day)

BeverageWords ==
    <<"beverage", "drink", "drinks", "lassi", "chai", "tea", "juice", "soda", "beverages">>

SaladWords == <<"salad", "salads", "fresh", "greens", "vegetables", "healthy">>

VegetarianWords ==
    <<"vegetarian", "veg", "vegan", "plant-based", "vegetarian menu", "complete vegetarian">>

DessertWords == <<"dessert", "sweet", "mithai", "kheer", "gulab", "jalebi", "halwa">>

BreadWords == <<"bread", "naan", "roti", "paratha", "kulcha">>

\* matched_dishes: the positions in menu_data of the items with a tag among `tags`
\* whether one of the hardcoded keyword groups of lines 518-584 matches the query
GroupMatches(q) ==
    \E words \in {BeverageWords, SaladWords, VegetarianWords, DessertWords, BreadWords} :
        AnyWordIn(words, Lower(q))

MatchedDishes(tags) ==
    LET item_tags == ItemTags
    IN SelectSeq([i \in 1..Len(MenuItems) |-> i],
                 LAMBDA i : \E t \in 1..Len(tags) : tags[t] \in item_tags[i])

\* _handle_dietary_inquiry as it would be with the salads group tested before the
\* beverages group
_handle_dietary_inquiry_salads_first(q, tags_arg, month, hour) ==
    LET weather == get_current_weather(month)
        time_of_day == get_time_of_day(hour)
        tags == WithContext(tags_arg, weather, time_of_day)
        matched == MatchedDishes(tags)
    IN IF AnyWordIn(SaladWords, Lower(q)) THEN [Response("dietary:salads") EXCEPT !.tags = tags]
       ELSE IF AnyWordIn(BeverageWords, Lower(q)) THEN [Response("dietary:beverages") EXCEPT !.tags = tags]
       ELSE IF AnyWordIn(VegetarianWords, Lower(q)) THEN [Response("dietary:vegetarian") EXCEPT !.tags = tags]
       ELSE IF AnyWordIn(DessertWords, Lower(q)) THEN [Response("dietary:desserts") EXCEPT !.tags = tags]
       ELSE IF AnyWordIn(BreadWords, Lower(q)) THEN [Response("dietary:breads") EXCEPT !.tags = tags]
       ELSE IF menu_data.json # "object" THEN Response("raised:AttributeError")
       ELSE IF matched # <<>>
            THEN [kind |-> "dietary:matched",
                  dishes |-> [i \in 1..Len(matched) |-> MenuItems[matched[i]].name],
                  suggestion |-> get_personalized_suggestion(tags, weather, time_of_day),
                  tags |-> tags]
       ELSE IF tags = <<>> THEN [Response("dietary:clarify") EXCEPT !.tags = tags]
       ELSE [Response("dietary:sorry") EXCEPT !.tags = tags]

\* _handle_dietary_inquiry: the groups of lines 518-584 are tested on query.lower()
_handle_dietary_inquiry(q, tags_arg, month, hour) ==
    LET weather == get_current_weather(month)
        time_of_day == get_time_of_day(hour)
        tags == WithContext(tags_arg, weather, time_of_day)
        matched == MatchedDishes(tags)
    IN IF AnyWordIn(BeverageWords, Lower(q)) THEN [Response("dietary:beverages") EXCEPT !.tags = tags]
       ELSE IF AnyWordIn(SaladWords, Lower(q)) THEN [Response("dietary:salads") EXCEPT !.tags = tags]
       ELSE IF AnyWordIn(VegetarianWords, Lower(q)) THEN [Response("dietary:vegetarian") EXCEPT !.tags = tags]
       ELSE IF AnyWordIn(DessertWords, Lower(q)) THEN [Response("dietary:desserts") EXCEPT !.tags = tags]
       ELSE IF AnyWordIn(BreadWords, Lower(q)) THEN [Response("dietary:breads") EXCEPT !.tags = tags]
       \* menu.values() of a menu that is not a dict raises AttributeError
       ELSE IF menu_data.json # "object" THEN Response("raised:AttributeError")
       ELSE IF matched # <<>>
            THEN [kind |-> "dietary:matched",
                  dishes |-> [i \in 1..Len(matched) |-> MenuItems[matched[i]].name],
                  suggestion |-> get_personalized_suggestion(tags, weather, time_of_day),
                  tags |-> tags]
       ELSE IF tags = <<>> THEN [Response("dietary:clarify") EXCEPT !.tags = tags]
       ELSE [Response("dietary:sorry") EXCEPT !.tags = tags]

\* _handle_spice_inquiry as it would be with the hot signals tested first
_handle_spice_inquiry_hot_first(q) ==
    IF AnyWordIn(<<"spicy", "hot", "fire", "challenge">>, q)
    THEN Response("spice:challenge")
    ELSE IF AnyWordIn(<<"mild", "not spicy", "kids", "children", "sensitive">>, q)
         THEN Response("spice:mild")
         ELSE Response("spice:navigator")

\* _handle_spice_inquiry: the query is tested as given, without lowercasing
_handle_spice_inquiry(q) ==
    IF AnyWordIn(<<"mild", "not spicy", "kids", "children", "sensitive">>, q)
    THEN Response("spice:mild")
    ELSE IF AnyWordIn(<<"spicy", "hot", "fire", "challenge">>, q)
         THEN Response("spice:challenge")
         ELSE Response("spice:navigator")

\* self.location
location == "1199 Amboy Ave, Edison, NJ 08837"

\* the ASCII characters of codes 32 to 95 and of codes 97 to 126, in the order of
\* their codes
AsciiLow == " !\"#$%&'()*+,-./0123456789:;<=>?@ABCDEFGHIJKLMNOPQRSTUVWXYZ[\\]^_"

AsciiHigh == "abcdefghijklmnopqrstuvwxyz{|}~"

HexDigits == "0123456789ABCDEF"

\* the characters urllib.parse.quote_plus leaves as they are
Unreserved ==
    LET all == LowerLetters \o UpperLetters \o Digits \o "_.-~"
    IN {Char(all, i) : i \in 1..Len(all)}

\* ord(c), for c of AsciiLow or AsciiHigh, a tab, a line feed or a carriage return
Ord(c) ==
    IF c = "\t" THEN 9
    ELSE IF c = "\n" THEN 10
    ELSE IF c = "\r" THEN 13
    ELSE IF \E i \in 1..Len(AsciiLow) : Char(AsciiLow, i) = c
         THEN 31 + CHOOSE i \in 1..Len(AsciiLow) : Char(AsciiLow, i) = c
         ELSE 96 + CHOOSE i \in 1..Len(AsciiHigh) : Char(AsciiHigh, i) = c

\* quote_plus of one character: itself, '+' for a space, else %XX
QuoteChar(c) ==
    IF c \in Unreserved THEN c
    ELSE IF c = " " THEN "+"
    ELSE "%" \o Char(HexDigits, (Ord(c) \div 16) + 1) \o Char(HexDigits, (Ord(c) % 16) + 1)

RECURSIVE quote_plus(_)
\* urllib.parse.quote_plus(s), for s of ASCII characters
quote_plus(s) ==
    IF Len(s) = 0 THEN ""
    ELSE IF Len(s) = 1 THEN QuoteChar(s)
    ELSE quote_plus(SubSeq(s, 1, Len(s) \div 2)) \o quote_plus(Suffix(s, Len(s) \div 2 + 1))

\* get_directions_link as it would be with origin and destination exchanged
get_directions_link_reversed(user_location) ==
    "https://www.google.com/maps/dir/?api=1" \o "&origin=" \o quote_plus(location)
        \o "&destination=" \o quote_plus(user_location)

get_directions_link(user_location) ==
    "https://www.google.com/maps/dir/?api=1" \o "&origin=" \o quote_plus(user_location)
        \o "&destination=" \o quote_plus(location)

\* the reply with a directions link from user_location
DirectionsReply(user_location) ==
    [Response("general:directions") EXCEPT
        !.origin = user_location, !.link = get_directions_link(user_location)]

DigitChars == {Char(Digits, i) : i \in 1..Len(Digits)}

\* the characters of the class [\w\s,\-]
LocationChars == WordChars \cup Whitespace \cup {",", "-"}

\* s[from..to] is not empty and has only characters of S
AllIn(s, from, to, S) == from <= to /\ \A i \in from..to : Char(s, i) \in S

\* re.search(prefix + "(.+)", q, re.IGNORECASE): the places where the prefix is
\* followed by a character other than a line feed
PrefixPlaces(q, prefix) ==
    {p \in 1..(Len(q) - Len(prefix)) :
        /\ OccursAt(Lower(q), prefix, p)
        /\ Char(q, p + Len(prefix)) # "\n"}

\* group(1) of that search: from the end of the leftmost prefix to the end of the line
PrefixCapture(q, prefix) ==
    LET p == CHOOSE x \in PrefixPlaces(q, prefix) : \A y \in PrefixPlaces(q, prefix) : x <= y
        rest == Suffix(q, p + Len(prefix))
        eol == FirstIn(rest, {"\n"})
    IN IF eol = 0 THEN rest ELSE SubSeq(rest, 1, eol - 1)

\* the ends e of a match of "from ([\w\s,\-]+\d{5})" that starts at p
FromZipEnds(q, p) ==
    {e \in (p + 10)..Len(q) :
        /\ OccursAt(Lower(q), "from ", p)
        /\ AllIn(q, p + 5, e - 5, LocationChars)
        /\ AllIn(q, e - 4, e, DigitChars)}

FromZipPlaces(q) == {p \in 1..Len(q) : FromZipEnds(q, p) # {}}

\* group(1) of re.search(r"from ([\w\s,\-]+\d{5})", q): leftmost start, longest match
FromZipCapture(q) ==
    LET p == CHOOSE x \in FromZipPlaces(q) : \A y \in FromZipPlaces(q) : x <= y
        e == CHOOSE x \in FromZipEnds(q, p) : \A y \in FromZipEnds(q, p) : y <= x
    IN SubSeq(q, p + 5, e)

\* directions_patterns as it would be with the 'route from' pattern listed first
directions_patterns_route_first ==
    <<"route from ", "directions from ", "how do i get there from ", "navigate from ">>

\* the first four of directions_patterns, without their "(.+)"
directions_patterns ==
    <<"directions from ", "how do i get there from ", "route from ", "navigate from ">>

\* zip_code_match as it would be with the pattern \d* in place of \d{5}
zip_code_match_any_length(s) == \A i \in 1..Len(s) : Char(s, i) \in DigitChars

\* re.fullmatch(r"\d{5}", s)
zip_code_match(s) == Len(s) = 5 /\ AllIn(s, 1, 5, DigitChars)

StreetWords ==
    <<"street", "st.", "road", "rd.", "avenue", "ave.", "blvd", "lane", "ln.", "drive", "dr.",
      "court", "ct.", "circle", "cir.", "plaza", "plz.", "parkway", "pkwy.", "way", "terrace",
      "ter.", "place", "pl.", "trail", "trl.", "highway", "hwy.", "route", "rt.">>

\* re.search(r"\d+\s+\w+.*(street|...|rt\.)", s, re.IGNORECASE): a digit, whitespace up
\* to position w, a word character, then a street word later on the same line
address_match(s) ==
    \E d \in 1..Len(s) : \E w \in (d + 1)..Len(s) :
        /\ Char(s, d) \in DigitChars
        /\ AllIn(s, d + 1, w, Whitespace)
        /\ w < Len(s) /\ Char(s, w + 1) \in WordChars
        /\ \E j \in (w + 2)..Len(s) :
               /\ \E k \in 1..Len(StreetWords) : OccursAt(Lower(s), StreetWords[k], j)
               /\ \A i \in (w + 2)..(j - 1) : Char(s, i) # "\n"

\* the keyword sub-branches of lines 932-947, in order
GeneralBranches ==
    << [kind |-> "general:about", words |-> <<"about", "who are you", "your story", "history">>],
       [kind |-> "general:hours", words |-> <<"hours", "time", "open", "close">>],
       [kind |-> "general:location", words |-> <<"location", "address", "directions">>],
       [kind |-> "cultural", words |-> <<"pakistani", "authentic", "halal", "culture">>],
       [kind |-> "general:google",
        words |-> <<"google", "maps", "location on google", "find you online">>],
       [kind |-> "general:rating",
        words |-> <<"rating", "review", "reviews", "google rating", "stars">>],
       [kind |-> "general:price",
        words |-> <<"price", "cost", "expensive", "cheap", "affordable">>],
       [kind |-> "general:social", words |-> <<"social", "facebook", "instagram", "media">>] >>

\* the sub-branches with a word contained in the query
BranchesHit(q) == {b \in 1..Len(GeneralBranches) : AnyWordIn(GeneralBranches[b].words, q)}

\* _handle_general_inquiry as it would be without its last return statement: the
\* function then ends without returning a string
_handle_general_inquiry_without_help(q) ==
    IF \E i \in 1..Len(directions_patterns) : PrefixPlaces(q, directions_patterns[i]) # {}
    THEN LET i == CHOOSE x \in 1..Len(directions_patterns) :
                      /\ PrefixPlaces(q, directions_patterns[x]) # {}
                      /\ \A y \in 1..(x - 1) : PrefixPlaces(q, directions_patterns[y]) = {}
         IN DirectionsReply(Strip(PrefixCapture(q, directions_patterns[i])))
    ELSE IF FromZipPlaces(q) # {} THEN DirectionsReply(Strip(FromZipCapture(q)))
    ELSE IF zip_code_match(Strip(q)) \/ address_match(Strip(q)) THEN DirectionsReply(Strip(q))
    ELSE IF BranchesHit(q) # {}
         THEN Response(GeneralBranches[CHOOSE b \in BranchesHit(q) :
                                           \A c \in BranchesHit(q) : b <= c].kind)
         ELSE NoResponse

_handle_general_inquiry(q) ==
    IF \E i \in 1..Len(directions_patterns) : PrefixPlaces(q, directions_patterns[i]) # {}
    THEN LET i == CHOOSE x \in 1..Len(directions_patterns) :
                      /\ PrefixPlaces(q, directions_patterns[x]) # {}
                      /\ \A y \in 1..(x - 1) : PrefixPlaces(q, directions_patterns[y]) = {}
         IN DirectionsReply(Strip(PrefixCapture(q, directions_patterns[i])))
    ELSE IF FromZipPlaces(q) # {} THEN DirectionsReply(Strip(FromZipCapture(q)))
    ELSE IF zip_code_match(Strip(q)) \/ address_match(Strip(q)) THEN DirectionsReply(Strip(q))
    ELSE IF BranchesHit(q) # {}
         THEN Response(GeneralBranches[CHOOSE b \in BranchesHit(q) :
                                           \A c \in BranchesHit(q) : b <= c].kind)
         ELSE Response("general:help")

(***************************************************************************)
(* Response Router.                                                        *)
(***************************************************************************)
\* handler_map as it would be without the GENERAL_INQUIRY entry
handler_map_without_general ==
    << [intent |-> "BESTSELLERS", handler |-> "_handle_bestsellers_inquiry"],
       [intent |-> "DIETARY_SPECIFIC", handler |-> "_handle_dietary_inquiry"],
       [intent |-> "SPICE_CONCERN", handler |-> "_handle_spice_inquiry"],
       [intent |-> "GROUP_DINING", handler |-> "_handle_group_dining"],
       [intent |-> "CULTURAL_CURIOSITY", handler |-> "_handle_cultural_inquiry"],
       [intent |-> "VALUE_SEEKING", handler |-> "_handle_value_inquiry"],
       [intent |-> "QUICK_SERVICE", handler |-> "_handle_quick_service"],
       [intent |-> "MENU_BROWSING", handler |-> "_handle_menu_browsing"] >>

\* the dict literal handler_map
handler_map ==
    << [intent |-> "BESTSELLERS", handler |-> "_handle_bestsellers_inquiry"],
       [intent |-> "DIETARY_SPECIFIC", handler |-> "_handle_dietary_inquiry"],
       [intent |-> "SPICE_CONCERN", handler |-> "_handle_spice_inquiry"],
       [intent |-> "GROUP_DINING", handler |-> "_handle_group_dining"],
       [intent |-> "CULTURAL_CURIOSITY", handler |-> "_handle_cultural_inquiry"],
       [intent |-> "VALUE_SEEKING", handler |-> "_handle_value_inquiry"],
       [intent |-> "QUICK_SERVICE", handler |-> "_handle_quick_service"],
       [intent |-> "MENU_BROWSING", handler |-> "_handle_menu_browsing"],
       [intent |-> "GENERAL_INQUIRY", handler |-> "_handle_general_inquiry"] >>

\* whether handler_map has the key `intent`
Registered(intent) == \E i \in 1..Len(handler_map) : handler_map[i].intent = intent

\* handler_map.get(intent, self._handle_general_inquiry)
HandlerFor(intent) ==
    IF Registered(intent)
    THEN handler_map[CHOOSE i \in 1..Len(handler_map) : handler_map[i].intent = intent].handler
    ELSE "_handle_general_inquiry"

\* handler(corrected_query): what the chosen handler returns
Invoke(h, q, tags, month, hour) ==
    IF h = "_handle_dietary_inquiry" THEN _handle_dietary_inquiry(q, tags, month, hour)
    ELSE IF h = "_handle_spice_inquiry" THEN _handle_spice_inquiry(q)
    ELSE IF h = "_handle_general_inquiry" THEN _handle_general_inquiry(q)
    ELSE IF h = "_handle_bestsellers_inquiry" THEN Response("bestsellers")
    ELSE IF h = "_handle_group_dining" THEN Response("group_dining")
    ELSE IF h = "_handle_cultural_inquiry" THEN Response("cultural")
    ELSE IF h = "_handle_value_inquiry" THEN Response("value")
    ELSE IF h = "_handle_quick_service" THEN Response("quick_service")
    ELSE Response("menu_browsing")

(***************************************************************************)
(* Construction of the agent: __init__ and _load_json_data.                *)
(***************************************************************************)
\* the data files looked for next to the module
FileNames == {"menu.json", "reviews.json", "trending.json"}

\* what a file can hold: nothing (it does not exist), text that json.load rejects,
\* the kind of JSON value the code expects of it, the JSON value {} or the JSON value []
FileKinds == {"absent", "unparseable", "expected", "empty object", "empty array"}

\* json.load(f) of a file that holds a JSON value
Parsed(filename, kind) ==
    IF kind = "empty object" THEN [json |-> "object"]
    ELSE IF kind = "empty array" THEN [json |-> "array", elements |-> <<>>]
    ELSE IF filename = "menu.json"
         THEN [json |-> "object",
               items |-> << [section |-> "beverages", name |-> "Sweet Lassi",
                             description |-> "Classic yogurt drink"] >>]
    ELSE IF filename = "reviews.json"
         THEN [json |-> "object", top_praise |-> << "Best naan in town" >>,
               trending_compliments |-> <<>>, common_questions_resolved |-> <<>>]
    ELSE [json |-> "array", elements |-> << "Sweet Lassi" >>]

\* the file does not exist, or json.load raises and the exception is logged: the
\* fallback is returned; else the value json.load returned, whatever it is
_load_json_data(filename, fallback) ==
    IF files[filename] \in {"absent", "unparseable"} THEN fallback
    ELSE Parsed(filename, files[filename])

\* no data file exists (none is shipped with the module)
NoFiles == [f \in FileNames |-> "absent"]

\* an attribute not assigned yet
Unset == [json |-> "unset"]

\* before ZaikaAIAgent() is called: only the tables of the class exist
NoAgent ==
    [status |-> "unconstructed", error |-> "", menu_data |-> Unset,
     review_insights |-> Unset, trending_dishes |-> Unset,
     CORRECTIONS |-> ClassCORRECTIONS, INTENT_KEYWORDS |-> ClassINTENT_KEYWORDS]

\* __init__ raised `error`: the caller gets no object
Raised(error) == [NoAgent EXCEPT !.status = "raised", !.error = error]

\* ZaikaAIAgent(): the object __init__ leaves, or the exception of line 200
NewAgent ==
    LET menu == _load_json_data("menu.json", _default_menu_data)
        reviews == _load_json_data("reviews.json", _default_review_insights)
        trending == _load_json_data("trending.json", _default_trending_dishes)
    IN IF reviews.json # "object" THEN Raised("TypeError")
       ELSE IF "top_praise" \notin DOMAIN reviews THEN Raised("KeyError")
       ELSE [status |-> "ready", error |-> "", menu_data |-> menu,
             review_insights |-> [reviews EXCEPT !.top_praise = @ \o review_snippets],
             trending_dishes |-> trending,
             CORRECTIONS |-> ClassCORRECTIONS, INTENT_KEYWORDS |-> ClassINTENT_KEYWORDS]

(***************************************************************************)
(* The requests the model types, and the clock readings it injects.        *)
(***************************************************************************)
\* fragments of requests to the assistant
Lexicon ==
    { " ", "menu", "I'm vegetarian, what do you recommend?", "spicy", "people", "quick",
      "authentic", "cheap", "halaal", "from ", "08837" }

\* fragments of requests to the normalizer: misspellings and pieces of them
NormLexicon == { " ", "biriyani", "diabetik", "tika", "a", "nan", "an", "Kabob", "favrite" }

\* fragments of requests to the tag extractor: phrases, near misses of phrases, separators
TagLexicon ==
    { " ", ",", "halaal", "Vegetarain", "not", "spicy", "biryanis", "nan" }

\* fragments of requests with the keywords of the later intents that contain a phrase
\* of INTENT_KEYWORDS
OverlapLexicon ==
    { " ", "menu", "price", "party", "group", "family", "sharing", "traditional" }

\* fragments of requests about the heat of the food
SpiceLexicon == { " ", "mild", "Mild", "kids", "not ", "spicy", "hot", "fire" }

\* arguments of get_personalized_suggestion: the values of weather['season'] and
\* weather['condition'], the labels of the time of day and one that is none of them,
\* and tag lists with and without 'festive' and 'holiday'
Seasons == {"winter", "spring", "summer", "fall"}

Conditions == {"cold", "mild", "hot"}

TimeLabels == {"breakfast", "lunch", "dinner", "late night", "brunch"}

SuggestTags == { <<>>, <<"spicy">>, <<"festive">>, <<"bbq", "holiday">> }

\* fragments of requests for directions, with and without the keywords of the
\* sub-branches
GeneralLexicon ==
    { " ", "directions from A ", "route from B", "from ", "NJ 08837", "08837",
      "12 main street", "hours", "about" }

\* fragments of requests that are, or nearly are, a bare ZIP code
ZipLocations == { " ", "0", "10", "37", "088", "902", "08837", "x" }

\* fragments of requests handed to the dietary handler without a tag list
DietLexicon ==
    { " ", "anything", "naan", "Something light", "for kids", "tea", "Tea", "salad", "veg",
      "sweet" }

\* one month of each season, one hour of each meal period
Months == {1, 4, 7, 10}

Hours == {3, 8, 13, 19}

\* the months and hours datetime.now() can give
AllMonths == 1..12

AllHours == 0..23

\* a call that has not read the clock
NoClock == [month |-> 0, hour |-> -1]

NoWeather == [season |-> "", condition |-> ""]

NoContext == [weather |-> NoWeather, time_of_day |-> ""]

\* fragments of requests asked again of the same agent
HistoryLexicon == { " ", "best mild", "mild tea" }

\* how a request was classified and routed
Classification(a, tags, h) ==
    [primary_intent |-> a.primary_intent, all_intents |-> a.all_intents,
     confidence |-> a.confidence, tags |-> {tags[t] : t \in 1..Len(tags)}, handler |-> h]

\* nothing remembered yet
NoEarlier == [asked |-> FALSE, query |-> "", classification |-> <<>>]

NoAnalysis ==
    [corrected_query |-> "", primary_intent |-> "GENERAL_INQUIRY", all_intents |-> <<>>,
     confidence |-> "low", tags |-> <<>>]

\* no call is under way
Idle ==
    /\ query = ""
    /\ nfrags = 0
    /\ phase = "input"
    /\ normalized = <<>>
    /\ analysis = NoAnalysis
    /\ tags_returned = <<>>
    /\ handler = "none"
    /\ used_default = FALSE
    /\ response = NoResponse
    /\ clock = NoClock
    /\ context = NoContext
    /\ earlier = NoEarlier

\* the agent was constructed where no data file exists
Init ==
    /\ Idle
    /\ files = NoFiles
    /\ agent = NewAgent

\* the agent is not constructed yet, the data files are whatever they are
InitLoad ==
    /\ Idle
    /\ files \in [FileNames -> FileKinds]
    /\ agent = NoAgent

\* ZaikaAIAgent()
__init__ ==
    /\ agent.status = "unconstructed"
    /\ agent' = NewAgent
    /\ UNCHANGED <<query, nfrags, phase, normalized, analysis, tags_returned, handler,
                   used_default, response, clock, context, files, earlier>>

\* the caller types one more fragment of the request, up to `limit` fragments
Type(f, limit) ==
    /\ phase = "input"
    /\ nfrags < limit
    /\ query' = query \o f
    /\ nfrags' = nfrags + 1
    /\ UNCHANGED <<phase, normalized, analysis, tags_returned, handler, used_default, response>>
    /\ UNCHANGED reading
    /\ UNCHANGED standing

\* generate_sophisticated_response(query), the clock reading month and hour
generate_sophisticated_response ==
    /\ phase = "input"
    /\ \E a \in {analyze_customer_intent(query)} :
        \E month \in Months, hour \in Hours :
            \E r \in {Invoke(HandlerFor(a.primary_intent), a.corrected_query, a.tags,
                             month, hour)} :
                /\ tags_returned' = a.tags
                /\ handler' = HandlerFor(a.primary_intent)
                /\ used_default' = ~Registered(a.primary_intent)
                /\ response' = r
                \* the dietary handler appends to the list analysis['tags'] refers to,
                \* unless that list is empty (`tags or []` is then a new list)
                /\ analysis' =
                       IF HandlerFor(a.primary_intent) = "_handle_dietary_inquiry"
                          /\ a.tags # <<>>
                       THEN [a EXCEPT !.tags = r.tags]
                       ELSE a
                \* only the dietary handler reads the clock
                /\ IF HandlerFor(a.primary_intent) = "_handle_dietary_inquiry"
                   THEN /\ clock' = [month |-> month, hour |-> hour]
                        /\ context' = [weather |-> get_current_weather(month),
                                        time_of_day |-> get_time_of_day(hour)]
                   ELSE UNCHANGED reading
    \* building intent_map reads the table twice
    /\ agent' = [agent EXCEPT !.INTENT_KEYWORDS = TableAfterConcat(TableAfterSum(@))]
    /\ phase' = "answered"
    /\ UNCHANGED <<query, nfrags, normalized, files, earlier>>

\* the caller keeps the request just answered and its classification
Remember ==
    /\ phase = "answered"
    /\ phase' = "remembered"
    /\ earlier' = [asked |-> TRUE, query |-> query,
                    classification |-> Classification(analysis, tags_returned, handler)]
    /\ UNCHANGED <<query, nfrags, normalized, analysis, tags_returned, handler,
                   used_default, response, clock, context, files, agent>>

\* correct_and_understand_query(query), called on its own
Correct ==
    /\ phase = "input"
    /\ normalized' = <<correct_and_understand_query(query)>>
    /\ phase' = "corrected"
    /\ UNCHANGED <<query, nfrags, analysis, tags_returned, handler, used_default, response>>
    /\ UNCHANGED reading
    /\ UNCHANGED standing

\* correct_and_understand_query called on what it returned
CorrectAgain ==
    /\ phase = "corrected"
    /\ normalized' = Append(normalized, correct_and_understand_query(normalized[1]))
    /\ phase' = "recorrected"
    /\ UNCHANGED <<query, nfrags, analysis, tags_returned, handler, used_default, response>>
    /\ UNCHANGED reading
    /\ UNCHANGED standing

\* extract_intent_tags(query), called on its own
ExtractTags ==
    /\ phase = "input"
    /\ tags_returned' = extract_intent_tags(query)
    /\ phase' = "tagged"
    /\ UNCHANGED <<query, nfrags, normalized, analysis, handler, used_default, response>>
    /\ UNCHANGED reading
    /\ UNCHANGED standing

\* the call is over: its locals are gone, the next request starts empty
NextGuest ==
    /\ phase # "input"
    /\ query' = ""
    /\ nfrags' = 0
    /\ phase' = "input"
    /\ normalized' = <<>>
    /\ analysis' = NoAnalysis
    /\ tags_returned' = <<>>
    /\ handler' = "none"
    /\ used_default' = FALSE
    /\ response' = NoResponse
    /\ clock' = NoClock
    /\ context' = NoContext
    /\ UNCHANGED standing

\* _handle_dietary_inquiry(query) or _handle_dietary_inquiry(query, []), called on its
\* own: `tags or []` is the empty list either way
DietaryCall ==
    /\ phase = "input"
    /\ \E month \in Months, hour \in Hours :
        /\ response' = _handle_dietary_inquiry(query, <<>>, month, hour)
        /\ clock' = [month |-> month, hour |-> hour]
        /\ context' = [weather |-> get_current_weather(month),
                        time_of_day |-> get_time_of_day(hour)]
    /\ handler' = "_handle_dietary_inquiry"
    /\ phase' = "handled"
    /\ UNCHANGED <<query, nfrags, normalized, analysis, tags_returned, used_default>>
    /\ UNCHANGED standing

\* _handle_spice_inquiry(query), called on its own
SpiceCall ==
    /\ phase = "input"
    /\ response' = _handle_spice_inquiry(query)
    /\ handler' = "_handle_spice_inquiry"
    /\ phase' = "handled"
    /\ UNCHANGED <<query, nfrags, normalized, analysis, tags_returned, used_default>>
    /\ UNCHANGED reading
    /\ UNCHANGED standing

\* get_personalized_suggestion(tags, weather, time_of_day), called on its own with any
\* arguments
SuggestCall ==
    /\ phase = "input"
    /\ \E tags \in SuggestTags, season \in Seasons, condition \in Conditions,
          label \in TimeLabels :
        LET weather == [season |-> season, condition |-> condition]
        IN /\ context' = [weather |-> weather, time_of_day |-> label]
           /\ response' = [Response("suggestion") EXCEPT
                               !.suggestion = get_personalized_suggestion(tags, weather, label),
                               !.tags = tags]
    /\ handler' = "get_personalized_suggestion"
    /\ phase' = "suggested"
    /\ UNCHANGED <<query, nfrags, normalized, analysis, tags_returned, used_default, clock>>
    /\ UNCHANGED standing

\* get_personalized_suggestion(tags, weather, time_of_day) as _handle_dietary_inquiry
\* calls it at line 619: weather and time_of_day were read from the clock
ContextSuggest ==
    /\ phase = "input"
    /\ \E tags \in SuggestTags, month \in AllMonths, hour \in AllHours :
        LET current == CurrentContext(month, hour)
        IN /\ clock' = [month |-> month, hour |-> hour]
           /\ context' = current
           /\ response' = [Response("suggestion") EXCEPT
                               !.suggestion = get_personalized_suggestion(
                                                  tags, current.weather, current.time_of_day),
                               !.tags = tags]
    /\ handler' = "get_personalized_suggestion"
    /\ phase' = "suggested"
    /\ UNCHANGED <<query, nfrags, normalized, analysis, tags_returned, used_default>>
    /\ UNCHANGED standing

\* _handle_general_inquiry(query), called on its own
GeneralCall ==
    /\ phase = "input"
    /\ response' = _handle_general_inquiry(query)
    /\ handler' = "_handle_general_inquiry"
    /\ phase' = "handled"
    /\ UNCHANGED <<query, nfrags, normalized, analysis, tags_returned, used_default>>
    /\ UNCHANGED reading
    /\ UNCHANGED standing

\* get_current_weather(), called on its own with the clock in month `month`
WeatherCall(month) ==
    /\ phase = "input"
    /\ clock' = [clock EXCEPT !.month = month]
    /\ context' = [context EXCEPT !.weather = get_current_weather(month)]
    /\ UNCHANGED <<query, nfrags, phase, normalized, analysis, tags_returned, handler,
                   used_default, response>>
    /\ UNCHANGED standing

\* get_time_of_day(), called on its own with the clock at hour `hour`
TimeCall(hour) ==
    /\ phase = "input"
    /\ clock' = [clock EXCEPT !.hour = hour]
    /\ context' = [context EXCEPT !.time_of_day = get_time_of_day(hour)]
    /\ UNCHANGED <<query, nfrags, phase, normalized, analysis, tags_returned, handler,
                   used_default, response>>
    /\ UNCHANGED standing

Next ==
    \/ \E f \in Lexicon : Type(f, MaxFrags)
    \/ generate_sophisticated_response
    \/ NextGuest

Spec == Init /\ [][Next]_vars

NextNorm ==
    \/ \E f \in NormLexicon : Type(f, MaxNormFrags)
    \/ Correct
    \/ CorrectAgain
    \/ NextGuest

\* the normalizer as a function of its input alone
SpecNorm == Init /\ [][NextNorm]_vars

NextTags ==
    \/ \E f \in TagLexicon : Type(f, MaxFrags)
    \/ ExtractTags
    \/ NextGuest

\* the tag extractor as a function of its input alone
SpecTags == Init /\ [][NextTags]_vars

NextLoad == __init__

\* the construction of the agent, whatever the data files hold
SpecLoad == InitLoad /\ [][NextLoad]_vars

NextHistory ==
    \/ \E f \in HistoryLexicon : Type(f, MaxFrags)
    \/ generate_sophisticated_response
    \/ Remember
    \/ NextGuest

\* one agent asked again and again, the caller comparing with an earlier answer
SpecHistory == Init /\ [][NextHistory]_vars

NextOverlap ==
    \/ \E f \in OverlapLexicon : Type(f, MaxFrags)
    \/ generate_sophisticated_response
    \/ NextGuest

\* the assistant asked with keywords of the later intents
SpecOverlap == Init /\ [][NextOverlap]_vars

NextDirections ==
    \/ \E f \in ZipLocations : Type(f, MaxFrags)
    \/ generate_sophisticated_response
    \/ NextGuest

\* the assistant asked with ZIP codes
SpecDirections == Init /\ [][NextDirections]_vars

NextDietary ==
    \/ \E f \in DietLexicon : Type(f, MaxFrags)
    \/ DietaryCall
    \/ NextGuest

\* the dietary handler called without tags
SpecDietary == Init /\ [][NextDietary]_vars

NextSpice ==
    \/ \E f \in SpiceLexicon : Type(f, MaxFrags)
    \/ SpiceCall
    \/ NextGuest

\* the spice handler called on its own
SpecSpice == Init /\ [][NextSpice]_vars

NextSuggest ==
    \/ SuggestCall
    \/ ContextSuggest
    \/ NextGuest

\* the suggestion sentence as a function of its arguments and of the clock
SpecSuggest == Init /\ [][NextSuggest]_vars

NextGeneral ==
    \/ \E f \in GeneralLexicon : Type(f, MaxFrags)
    \/ GeneralCall
    \/ NextGuest

\* the general handler called on its own
SpecGeneral == Init /\ [][NextGeneral]_vars

NextClock ==
    \/ \E month \in AllMonths : WeatherCall(month)
    \/ \E hour \in AllHours : TimeCall(hour)

\* the context enricher as a function of the clock alone
SpecClock == Init /\ [][NextClock]_vars

(***************************************************************************)
(* Properties of the intent classifier and of the router, under Spec.      *)
(***************************************************************************)
\* the priority order the classifier is specified to follow
ClaimedOrder ==
    << "MENU_BROWSING", "BESTSELLERS", "DIETARY_SPECIFIC", "SPICE_CONCERN", "GROUP_DINING",
       "QUICK_SERVICE", "CULTURAL_CURIOSITY", "VALUE_SEEKING" >>

\* the keyword list of an intent, whatever its place in intent_map
KeywordListOf(intent) ==
    intent_map[CHOOSE i \in 1..Len(intent_map) : intent_map[i].intent = intent].words

\* the places in ClaimedOrder of the intents with a phrase contained in the text
MatchingPlaces(text) ==
    {i \in 1..Len(ClaimedOrder) : AnyWordIn(KeywordListOf(ClaimedOrder[i]), text)}

Earliest(S) == CHOOSE i \in S : \A j \in S : i <= j

\* C1: the primary intent is the earliest intent of the order MENU_BROWSING,
\* BESTSELLERS, DIETARY_SPECIFIC, SPICE_CONCERN, GROUP_DINING, QUICK_SERVICE,
\* CULTURAL_CURIOSITY, VALUE_SEEKING that has a phrase contained in the normalized
\* query; it is the first element of all_intents when that list is not empty, and it
\* is GENERAL_INQUIRY exactly when no intent matches.
C1_PrimaryIsFirstMatch ==
    phase = "answered" =>
        LET places == MatchingPlaces(analysis.corrected_query)
        IN /\ places # {} => analysis.primary_intent = ClaimedOrder[Earliest(places)]
           /\ analysis.all_intents # <<>> =>
                  analysis.primary_intent = analysis.all_intents[1]
           /\ (analysis.primary_intent = "GENERAL_INQUIRY") <=> (places = {})

\* a request that names a low-priority intent before a high-priority one
C1_Witness ==
    /\ phase = "answered"
    /\ analysis.primary_intent = "MENU_BROWSING"
    /\ InList("VALUE_SEEKING", analysis.all_intents)
    /\ Find(analysis.corrected_query, "cheap") < Find(analysis.corrected_query, "menu")

\* C2: whatever the query, the primary intent of an analysis is one of the nine
\* members of the Intent enumeration, never a missing value.
C2_PrimaryIsIntentMember == analysis.primary_intent \in IntentMembers

\* a non-empty request that matches no intent and so takes the default
C2_Witness ==
    /\ phase = "answered"
    /\ analysis.corrected_query # ""
    /\ analysis.all_intents = <<>>
    /\ analysis.primary_intent = "GENERAL_INQUIRY"

\* whether the premise of C3 holds of a normalized query: a SPICE_CONCERN keyword
\* and no keyword of MENU_BROWSING, BESTSELLERS or DIETARY_SPECIFIC
C3_Premise(text) ==
    /\ AnyWordIn(KeywordListOf("SPICE_CONCERN"), text)
    /\ ~AnyWordIn(KeywordListOf("MENU_BROWSING"), text)
    /\ ~AnyWordIn(KeywordListOf("BESTSELLERS"), text)
    /\ ~AnyWordIn(KeywordListOf("DIETARY_SPECIFIC"), text)

\* C3: a query whose normalized form contains a SPICE_CONCERN keyword and no
\* keyword of a higher-priority intent has the primary intent SPICE_CONCERN.
C3_SpiceWhenNothingHigher ==
    (phase = "answered" /\ C3_Premise(analysis.corrected_query)) =>
        analysis.primary_intent = "SPICE_CONCERN"

\* C3: the premise holds of no request; every SPICE_CONCERN keyword is in the
\* DIETARY_SPECIFIC list as well.
C3_PremiseNeverHolds ==
    /\ \A k \in 1..Len(KeywordListOf("SPICE_CONCERN")) :
           InList(KeywordListOf("SPICE_CONCERN")[k], KeywordListOf("DIETARY_SPECIFIC"))
    /\ phase = "answered" => ~C3_Premise(analysis.corrected_query)

\* C4: for "I'm vegetarian, what do you recommend?" the tags include vegetarian, the
\* primary intent is DIETARY_SPECIFIC and the response lists at least one menu item
\* whose implied tags include vegetarian.
C4_VegetarianScenario ==
    (phase = "answered" /\ query = "I'm vegetarian, what do you recommend?") =>
        /\ InList("vegetarian", tags_returned)
        /\ analysis.primary_intent = "DIETARY_SPECIFIC"
        /\ \E d \in 1..Len(response.dishes) :
               \E i \in 1..Len(MenuItems) :
                   /\ MenuItems[i].name = response.dishes[d]
                   /\ "vegetarian" \in ItemTags[i]

\* C5: when the tag extractor returns a non-empty tag list for the normalized query,
\* by containment or by fuzzy match, DIETARY_SPECIFIC is among the matched intents.
C5_TagMatchIsDietaryMatch ==
    (phase = "answered" /\ tags_returned # <<>>) =>
        InList("DIETARY_SPECIFIC", analysis.all_intents)

\* C8: confidence is high iff two or more intents matched, medium iff exactly one,
\* low iff none; it is low exactly when all_intents is empty and the primary intent
\* is GENERAL_INQUIRY, which is never an element of all_intents.
C8_ConfidenceByCount ==
    phase = "answered" =>
        LET matched == Cardinality(MatchingPlaces(analysis.corrected_query))
        IN /\ (analysis.confidence = "high") <=> (matched >= 2)
           /\ (analysis.confidence = "medium") <=> (matched = 1)
           /\ (analysis.confidence = "low") <=> (matched = 0)
           /\ Len(analysis.all_intents) = matched
           /\ (analysis.confidence = "low") <=>
                  (analysis.all_intents = <<>> /\ analysis.primary_intent = "GENERAL_INQUIRY")
           /\ ~InList("GENERAL_INQUIRY", analysis.all_intents)

\* a request that matches exactly one intent
C8_Witness ==
    /\ phase = "answered"
    /\ Len(analysis.all_intents) = 1
    /\ analysis.confidence = "medium"

\* C9: handler_map has an entry for each of the nine intents, GENERAL_INQUIRY
\* included; the handler invoked is the one registered for the primary intent and the
\* default of the lookup is never used.
C9_EveryIntentHasHandler ==
    /\ \A m \in IntentMembers : \E i \in 1..Len(handler_map) : handler_map[i].intent = m
    /\ phase = "answered" =>
           /\ ~used_default
           /\ \E i \in 1..Len(handler_map) :
                  /\ handler_map[i].intent = analysis.primary_intent
                  /\ handler_map[i].handler = handler

\* a request classified GENERAL_INQUIRY, dispatched through its own entry
C9_Witness ==
    /\ phase = "answered"
    /\ analysis.primary_intent = "GENERAL_INQUIRY"
    /\ handler = "_handle_general_inquiry"
    /\ ~used_default

(***************************************************************************)
(* Properties of the normalizer, under SpecNorm.                           *)
(***************************************************************************)
\* the key occurs in the text at position p as a whole word: whitespace or an end
\* of the text on either side
WordAt(text, key, p) ==
    /\ OccursAt(text, key, p)
    /\ p = 1 \/ Char(text, p - 1) \in Whitespace
    /\ p + Len(key) - 1 = Len(text) \/ Char(text, p + Len(key)) \in Whitespace

OccursAsWord(text, key) == \E p \in 1..(Len(text) - Len(key) + 1) : WordAt(text, key, p)

\* every occurrence of every key of CORRECTIONS in the text is a whole word
KeysAreWords(text) ==
    \A i \in 1..Len(CORRECTIONS) :
        \A p \in 1..(Len(text) - Len(CORRECTIONS[i][1]) + 1) :
            OccursAt(text, CORRECTIONS[i][1], p) => WordAt(text, CORRECTIONS[i][1], p)

\* the entries of CORRECTIONS that change the text they match
Misspellings == {i \in 1..Len(CORRECTIONS) : CORRECTIONS[i][1] # CORRECTIONS[i][2]}

\* C6 as stated: whenever the query contains a key of CORRECTIONS, in any case of
\* letters, the normalized query contains that key's canonical form, also when keys
\* overlap or an earlier replacement changes what a later key matches.
C6_CanonicalFormPresent ==
    phase = "corrected" =>
        \A i \in 1..Len(CORRECTIONS) :
            Contains(Lower(query), CORRECTIONS[i][1]) =>
                Contains(normalized[1], CORRECTIONS[i][2])

\* C6 amended: whenever a key of CORRECTIONS occurs in the query as a whole word
\* (in any case of letters, delimited by whitespace or the ends of the query), the
\* normalized query contains that key's canonical form, whatever else the query holds.
C6_CanonicalFormOfWholeWords ==
    phase = "corrected" =>
        \A i \in 1..Len(CORRECTIONS) :
            OccursAsWord(Lower(query), CORRECTIONS[i][1]) =>
                Contains(normalized[1], CORRECTIONS[i][2])

\* a query with two different misspellings, one of them a whole word
C6_Witness ==
    /\ phase = "corrected"
    /\ \E i, j \in Misspellings :
           /\ i # j
           /\ OccursAsWord(Lower(query), CORRECTIONS[i][1])
           /\ Contains(Lower(query), CORRECTIONS[j][1])
           /\ Contains(normalized[1], CORRECTIONS[i][2])

\* C7 as stated: for every query, normalizing the normalized query gives the
\* normalized query.
C7_Idempotent == phase = "recorrected" => normalized[2] = normalized[1]

\* C7 amended: for every query in which every occurrence of a key of CORRECTIONS
\* is a whole word (delimited by whitespace or the ends of the query), normalizing
\* the normalized query gives the normalized query.
C7_IdempotentOnWholeWords ==
    (phase = "recorrected" /\ KeysAreWords(Lower(query))) => normalized[2] = normalized[1]

\* a query of whole words that the first normalization changed in two places
C7_Witness ==
    /\ phase = "recorrected"
    /\ KeysAreWords(Lower(query))
    /\ \E i, j \in Misspellings :
           /\ i # j
           /\ Contains(Lower(query), CORRECTIONS[i][1])
           /\ Contains(Lower(query), CORRECTIONS[j][1])
    /\ normalized[2] = normalized[1]

(***************************************************************************)
(* Properties of the tag extractor, under SpecTags.                        *)
(***************************************************************************)
\* some phrase of the t-th tag is contained in the lower-cased query or has a
\* similarity ratio of at least 0.8 with one of its tokens
TagQualifies(t, query_lower, tokens) ==
    \E k \in 1..Len(INTENT_KEYWORDS[t].keywords) :
        \/ Contains(query_lower, INTENT_KEYWORDS[t].keywords[k])
        \/ \E w \in 1..Len(tokens) : RatioOK(tokens[w], INTENT_KEYWORDS[t].keywords[k])

\* C10: the tags returned are exactly the tags with a phrase that is contained in the
\* lower-cased query or has a similarity ratio of at least 0.8 with a \w+ token of
\* it; no other tag is returned and none is returned twice.
C10_ExactlyTheQualifyingTags ==
    phase = "tagged" =>
        LET query_lower == Lower(query)
            tokens == FindAllWords(query_lower)
        IN /\ {tags_returned[i] : i \in 1..Len(tags_returned)} =
                  {INTENT_KEYWORDS[t].tag : t \in
                      {t \in 1..Len(INTENT_KEYWORDS) : TagQualifies(t, query_lower, tokens)}}
           /\ \A i, j \in 1..Len(tags_returned) :
                  i # j => tags_returned[i] # tags_returned[j]

\* a query with a tag found by similarity alone and another found by containment alone
C10_Witness ==
    /\ phase = "tagged"
    /\ \E i, j \in 1..Len(tags_returned) :
           /\ ~AnyWordIn(KeywordsOf(tags_returned[i]), Lower(query))
           /\ \A k \in 1..Len(KeywordsOf(tags_returned[j])) :
                  get_close_matches(KeywordsOf(tags_returned[j])[k],
                                    FindAllWords(Lower(query))) = {}

(***************************************************************************)
(* Properties of the context enricher, under SpecClock.                    *)
(***************************************************************************)
\* C17: get_current_weather is a total function of the month alone: months 12, 1, 2
\* give season winter with condition cold, months 6, 7, 8 summer with hot, months
\* 3, 4, 5 spring and months 9, 10, 11 fall, both with mild; so the condition is cold
\* exactly in winter and hot exactly in summer.
C17_WeatherByMonth ==
    clock.month # 0 =>
        /\ clock.month \in {12, 1, 2} =>
               context.weather = [season |-> "winter", condition |-> "cold"]
        /\ clock.month \in {6, 7, 8} =>
               context.weather = [season |-> "summer", condition |-> "hot"]
        /\ clock.month \in {3, 4, 5} =>
               context.weather = [season |-> "spring", condition |-> "mild"]
        /\ clock.month \in {9, 10, 11} =>
               context.weather = [season |-> "fall", condition |-> "mild"]
        /\ context.weather.condition = "cold" <=> context.weather.season = "winter"
        /\ context.weather.condition = "hot" <=> context.weather.season = "summer"

\* the weather was read in December, whatever the hour read before it
C17_Witness ==
    /\ clock.month = 12
    /\ clock.hour = 13
    /\ context.weather.season = "winter"

\* C18: get_time_of_day is a total function of the hour alone: every hour 0..23 gives
\* exactly one of breakfast (5 <= h < 11), lunch (11 <= h < 16), dinner (16 <= h < 22)
\* and late night (h >= 22 or h < 5).
C18_MealPeriodByHour ==
    clock.hour # -1 =>
        /\ context.time_of_day \in {"breakfast", "lunch", "dinner", "late night"}
        /\ context.time_of_day = "breakfast" <=> (5 <= clock.hour /\ clock.hour < 11)
        /\ context.time_of_day = "lunch" <=> (11 <= clock.hour /\ clock.hour < 16)
        /\ context.time_of_day = "dinner" <=> (16 <= clock.hour /\ clock.hour < 22)
        /\ context.time_of_day = "late night" <=> (clock.hour >= 22 \/ clock.hour < 5)

\* the hour was read at 11, the first hour of lunch, whatever the month read before it
C18_Witness ==
    /\ clock.hour = 11
    /\ clock.month = 7
    /\ context.time_of_day = "lunch"

(***************************************************************************)
(* Properties of the dietary handler.                                      *)
(***************************************************************************)
\* C19: when _handle_dietary_inquiry is called with an empty or missing tag list and
\* none of its hardcoded keyword groups matches the query, it returns the
\* clarification request and not a list of dishes found by searching the menu.
C19_ClarifiesWithoutTags ==
    (phase = "handled" /\ ~GroupMatches(query)) =>
        /\ response.kind = "dietary:clarify"
        /\ response.dishes = <<>>

\* the tags extracted from the query that the item of position i has
SharedTags(i) == {tags_returned[t] : t \in 1..Len(tags_returned)} \cap ItemTags[i]

\* C20: in the generic fallback of _handle_dietary_inquiry an item of the menu is
\* listed in the response exactly when its implied tags intersect the tags extracted
\* from the query, whatever the season, the weather condition and the time of day.
C20_ListedIffTagsIntersect ==
    (/\ phase = "answered"
     /\ handler = "_handle_dietary_inquiry"
     /\ ~GroupMatches(analysis.corrected_query)) =>
        \A i \in 1..Len(MenuItems) :
            InList(MenuItems[i].name, response.dishes) <=> SharedTags(i) # {}

(***************************************************************************)
(* Properties of generate_sophisticated_response as a whole, under Spec    *)
(* and SpecDirections.                                                     *)
(***************************************************************************)
\* the templates each handler can return
HandlerTemplates(h) ==
    IF h = "_handle_bestsellers_inquiry" THEN {"bestsellers"}
    ELSE IF h = "_handle_dietary_inquiry"
         THEN {"dietary:beverages", "dietary:salads", "dietary:vegetarian", "dietary:desserts",
               "dietary:breads", "dietary:matched", "dietary:clarify", "dietary:sorry"}
    ELSE IF h = "_handle_spice_inquiry" THEN {"spice:mild", "spice:challenge", "spice:navigator"}
    ELSE IF h = "_handle_group_dining" THEN {"group_dining"}
    ELSE IF h = "_handle_cultural_inquiry" THEN {"cultural"}
    ELSE IF h = "_handle_value_inquiry" THEN {"value"}
    ELSE IF h = "_handle_quick_service" THEN {"quick_service"}
    ELSE IF h = "_handle_menu_browsing" THEN {"menu_browsing"}
    ELSE IF h = "_handle_general_inquiry"
         THEN {"general:directions", "general:about", "general:hours", "general:location",
               "cultural", "general:google", "general:rating", "general:price",
               "general:social", "general:help"}
    ELSE {}

\* C11: with the default reference data every query, the empty one and those with no
\* keyword in them included, gets a defined response: generate_sophisticated_response
\* returns a text of one of the nine handlers, the one the router chose.
C11_DefinedResponse ==
    phase = "answered" =>
        /\ Cardinality({i \in 1..Len(handler_map) : handler_map[i].handler = handler}) = 1
        /\ response.kind \in HandlerTemplates(handler)

\* a request with no keyword in it was answered
C11_Witness ==
    /\ phase = "answered"
    /\ query = "from "
    /\ analysis.all_intents = <<>>
    /\ response.kind = "general:help"

\* C12: the empty query, and any query of whitespace only, is classified
\* GENERAL_INQUIRY with confidence low and no tags, and is answered by the general
\* handler's last, generic help text: no directions or keyword branch fires.
C12_EmptyQueryGetsHelp ==
    (phase = "answered" /\ \A i \in 1..Len(query) : Char(query, i) \in Whitespace) =>
        /\ analysis.primary_intent = "GENERAL_INQUIRY"
        /\ analysis.confidence = "low"
        /\ analysis.tags = <<>>
        /\ tags_returned = <<>>
        /\ handler = "_handle_general_inquiry"
        /\ response = Response("general:help")

\* the empty request and a request of two spaces, answered
C12_Witness ==
    /\ phase = "answered"
    /\ query \in {"", "  "}
    /\ response.kind = "general:help"

\* C13: a query of exactly five decimal digits is classified GENERAL_INQUIRY, the
\* general handler takes the whole query as the location, and the response has a
\* maps directions URL with that ZIP as origin and the encoded address of the
\* restaurant as destination.
C13_BareZipGetsDirections ==
    (/\ phase = "answered"
     /\ Len(query) = 5
     /\ \A i \in 1..Len(query) : Char(query, i) \in DigitChars) =>
        /\ analysis.primary_intent = "GENERAL_INQUIRY"
        /\ handler = "_handle_general_inquiry"
        /\ response.kind = "general:directions"
        /\ response.origin = query
        /\ response.link =
               "https://www.google.com/maps/dir/?api=1&origin=" \o query
                   \o "&destination=1199+Amboy+Ave%2C+Edison%2C+NJ+08837"

\* a ZIP code typed in two pieces was answered with directions from it
C13_Witness ==
    /\ phase = "answered"
    /\ query = "90210"
    /\ response.origin = "90210"

(***************************************************************************)
(* Properties of the construction of the agent, under SpecLoad, and of the *)
(* agent over many calls, under Spec and SpecHistory.                      *)
(***************************************************************************)
\* the dataset the agent holds for a data file
DataOf(filename) ==
    IF filename = "menu.json" THEN agent.menu_data
    ELSE IF filename = "reviews.json" THEN agent.review_insights
    ELSE agent.trending_dishes

\* the built-in dataset of a data file, as __init__ leaves it
BuiltIn(filename) ==
    IF filename = "menu.json" THEN _default_menu_data
    ELSE IF filename = "reviews.json"
         THEN [_default_review_insights EXCEPT !.top_praise = @ \o review_snippets]
    ELSE _default_trending_dishes

\* the file cannot be parsed, or holds a JSON value that is not of the kind the code
\* expects of that file (a dict of sections, a dict with top_praise, a list of names)
Malformed(filename, kind) ==
    \/ kind = "unparseable"
    \/ filename = "menu.json" /\ kind = "empty array"
    \/ filename = "reviews.json" /\ kind \in {"empty object", "empty array"}
    \/ filename = "trending.json" /\ kind = "empty object"

\* C14: loading the reference data never raises to the caller: when a data file is
\* absent, unparseable or otherwise malformed, the construction of the agent succeeds
\* and the built-in default dataset is used in place of the file.
C14_DefaultsReplaceBadFiles ==
    agent.status # "unconstructed" =>
        /\ agent.status = "ready"
        /\ \A f \in FileNames :
               (files[f] = "absent" \/ Malformed(f, files[f])) => DataOf(f) = BuiltIn(f)

\* C15: once the agent is constructed no step changes it: menu_data, review_insights,
\* trending_dishes, CORRECTIONS and INTENT_KEYWORDS stay as construction left them,
\* whatever requests are answered.
C15_AgentIsNotMutated == [][agent.status = "ready" => agent' = agent]_vars

\* a request was answered by the dietary handler, which appended to its list of tags,
\* and the agent is as the constructor left it
C15_Witness ==
    /\ phase = "answered"
    /\ handler = "_handle_dietary_inquiry"
    /\ analysis.tags # tags_returned
    /\ agent = NewAgent

\* C16: a request is classified and routed the same way whatever the agent answered
\* before it: primary_intent, all_intents, confidence, the set of tags and the handler
\* of a request are those the same request got earlier from the same agent.
C16_SameClassificationAsEarlier ==
    (phase = "answered" /\ earlier.asked /\ earlier.query = query) =>
        Classification(analysis, tags_returned, handler) = earlier.classification

\* 'best mild' was answered, remembered, and answered again later
C16_Witness ==
    /\ phase = "answered"
    /\ earlier.asked
    /\ earlier.query = "best mild"
    /\ query = "best mild"
    /\ "mild" \in earlier.classification.tags

(***************************************************************************)
(* What the order of intent_map and the shared keywords imply, under Spec. *)
(***************************************************************************)
\* the keyword list of an intent in intent_map
WordsOfIntent(intent) ==
    intent_map[CHOOSE i \in 1..Len(intent_map) : intent_map[i].intent = intent].words

\* the place of an intent in intent_map
PlaceOfIntent(intent) == CHOOSE i \in 1..Len(intent_map) : intent_map[i].intent = intent

\* C27: every SPICE_CONCERN keyword is also a DIETARY_SPECIFIC keyword and
\* DIETARY_SPECIFIC is tested first, so no query gets primary_intent = SPICE_CONCERN
\* and generate_sophisticated_response never calls _handle_spice_inquiry.
C27_SpiceIsNeverPrimary ==
    phase = "answered" =>
        /\ \A w \in 1..Len(WordsOfIntent("SPICE_CONCERN")) :
               InList(WordsOfIntent("SPICE_CONCERN")[w], WordsOfIntent("DIETARY_SPECIFIC"))
        /\ PlaceOfIntent("DIETARY_SPECIFIC") < PlaceOfIntent("SPICE_CONCERN")
        /\ analysis.primary_intent # "SPICE_CONCERN"
        /\ handler # "_handle_spice_inquiry"

\* a request with a spice keyword was answered: SPICE_CONCERN was detected, and the
\* dietary handler was called
C27_Witness ==
    /\ phase = "answered"
    /\ InList("SPICE_CONCERN", analysis.all_intents)
    /\ analysis.primary_intent = "DIETARY_SPECIFIC"
    /\ handler = "_handle_dietary_inquiry"

\* C28: whenever DIETARY_SPECIFIC is among the intents matched for a query, the tags
\* returned in the same analysis are not empty, so the tag list the router passes to
\* _handle_dietary_inquiry is never empty.
C28_DietaryComesWithTags ==
    phase = "answered" =>
        /\ InList("DIETARY_SPECIFIC", analysis.all_intents) => tags_returned # <<>>
        /\ handler = "_handle_dietary_inquiry" => tags_returned # <<>>

\* a request whose only keyword hit is inside a longer word went to the dietary
\* handler with the tags of that keyword
C28_Witness ==
    /\ phase = "answered"
    /\ query = "spicyquick"
    /\ handler = "_handle_dietary_inquiry"
    /\ InList("spicy", tags_returned)

(***************************************************************************)
(* The analysis record and the fifth directions pattern, under Spec.       *)
(***************************************************************************)
\* the elements of a list
Elements(l) == {l[i] : i \in 1..Len(l)}

\* C22: the analysis record is not changed once created: when the handler has
\* returned, analysis['tags'] still holds the tags extract_intent_tags produced.
C22_AnalysisKeepsItsTags ==
    phase = "answered" =>
        /\ analysis.tags = tags_returned
        /\ Elements(analysis.tags) = Elements(tags_returned)

\* C25: a query 'from <five-digit ZIP>', with one space and nothing else, is taken
\* by the fifth directions pattern and answered with a directions link whose origin
\* is that ZIP.
C25_FromZipGetsDirections ==
    (/\ phase = "answered"
     /\ Len(query) = 10
     /\ SubSeq(query, 1, 5) = "from "
     /\ \A i \in 6..10 : Char(query, i) \in DigitChars) =>
        /\ response.kind = "general:directions"
        /\ response.origin = SubSeq(query, 6, 10)

(***************************************************************************)
(* Keywords of later intents that contain a phrase of the tag extractor,   *)
(* under SpecOverlap.                                                      *)
(***************************************************************************)
\* C30: a query whose normalized form contains 'price', 'party', 'group', 'family',
\* 'sharing' or 'traditional' has DIETARY_SPECIFIC among its matched intents, and its
\* primary_intent is MENU_BROWSING, BESTSELLERS or DIETARY_SPECIFIC, never
\* VALUE_SEEKING, GROUP_DINING or CULTURAL_CURIOSITY.
C30_OverlappingKeywordsAreDietary ==
    (/\ phase = "answered"
     /\ \E w \in {"price", "party", "group", "family", "sharing", "traditional"} :
            Contains(analysis.corrected_query, w)) =>
        /\ InList("DIETARY_SPECIFIC", analysis.all_intents)
        /\ analysis.primary_intent \in {"MENU_BROWSING", "BESTSELLERS", "DIETARY_SPECIFIC"}
        /\ handler \notin {"_handle_value_inquiry", "_handle_group_dining",
                            "_handle_cultural_inquiry"}

\* 'price' was answered: VALUE_SEEKING was matched, and DIETARY_SPECIFIC won
C30_Witness ==
    /\ phase = "answered"
    /\ query = "price"
    /\ InList("VALUE_SEEKING", analysis.all_intents)
    /\ analysis.primary_intent = "DIETARY_SPECIFIC"

(***************************************************************************)
(* The spice handler, under SpecSpice.                                     *)
(***************************************************************************)
MildSignals == {"mild", "not spicy", "kids", "children", "sensitive"}

HotSignals == {"spicy", "hot", "fire", "challenge"}

\* C26: _handle_spice_inquiry returns exactly one of three canned responses and tests
\* the mild signals before the hot signals: a query containing a mild signal gets the
\* mild response even if it also contains a hot signal, a query containing only hot
\* signals gets the spice-challenge response, a query containing neither gets the
\* spice-level navigator.
C26_MildBeforeHot ==
    (phase = "handled" /\ handler = "_handle_spice_inquiry") =>
        LET mild == \E w \in MildSignals : Contains(query, w)
            hot == \E w \in HotSignals : Contains(query, w)
        IN /\ response.kind \in {"spice:mild", "spice:challenge", "spice:navigator"}
           /\ mild => response.kind = "spice:mild"
           /\ (hot /\ ~mild) => response.kind = "spice:challenge"
           /\ (~hot /\ ~mild) => response.kind = "spice:navigator"

\* a query with a mild signal and a hot signal got the mild response
C26_Witness ==
    /\ phase = "handled"
    /\ handler = "_handle_spice_inquiry"
    /\ Contains(query, "kids")
    /\ Contains(query, "hot")
    /\ response.kind = "spice:mild"

(***************************************************************************)
(* The keyword groups of the dietary handler, under SpecDietary.           *)
(***************************************************************************)
\* the groups in the order the handler is specified to test them
GroupOrder ==
    << [kind |-> "dietary:beverages", words |-> BeverageWords],
       [kind |-> "dietary:salads", words |-> SaladWords],
       [kind |-> "dietary:vegetarian", words |-> VegetarianWords],
       [kind |-> "dietary:desserts", words |-> DessertWords],
       [kind |-> "dietary:breads", words |-> BreadWords] >>

\* the place in GroupOrder of the first group with a keyword contained in text, or 0
FirstGroup(text) ==
    LET hits == {g \in 1..Len(GroupOrder) :
                    \E w \in 1..Len(GroupOrder[g].words) :
                        Contains(text, GroupOrder[g].words[w])}
    IN IF hits = {} THEN 0 ELSE CHOOSE g \in hits : \A h \in hits : g <= h

\* the outcomes of the tag-based menu filter
FilterKinds ==
    {"dietary:matched", "dietary:clarify", "dietary:sorry", "raised:AttributeError"}

\* C21 as stated: the handler returns the template of the first group, in the order
\* beverages, salads, vegetarian, desserts, breads, that has a keyword contained in
\* the query, and the tag-based menu filter runs only when no group matches.
C21_FirstGroupInQuery ==
    (phase = "handled" /\ handler = "_handle_dietary_inquiry") =>
        /\ FirstGroup(query) # 0 => response.kind = GroupOrder[FirstGroup(query)].kind
        /\ response.kind \in FilterKinds => FirstGroup(query) = 0

\* C21, amended: the handler returns the template of the first group, in the order
\* beverages, salads, vegetarian, desserts, breads, that has a keyword contained in
\* the lowercased query, and the tag-based menu filter runs only when no group has one.
C21_FirstGroupInLoweredQuery ==
    (phase = "handled" /\ handler = "_handle_dietary_inquiry") =>
        /\ FirstGroup(Lower(query)) # 0 =>
               response.kind = GroupOrder[FirstGroup(Lower(query))].kind
        /\ response.kind \in FilterKinds <=> FirstGroup(Lower(query)) = 0

\* a query with keywords of the salads group and of the vegetarian group got the
\* salads template
C21_Witness ==
    /\ phase = "handled"
    /\ handler = "_handle_dietary_inquiry"
    /\ Contains(query, "veg")
    /\ Contains(query, "salad")
    /\ response.kind = "dietary:salads"

(***************************************************************************)
(* The suggestion sentence, under SpecSuggest.                             *)
(***************************************************************************)
TimeNames == {"breakfast", "lunch", "dinner", "late night"}

FestiveTags == InList("festive", response.tags) \/ InList("holiday", response.tags)

\* C23 as stated: the sentence for 'cold' or 'hot' is returned whatever the time of day
\* and tags; otherwise the sentence is chosen by time of day; the festive sentence is
\* returned only when neither weather nor time of day selects one and the tags contain
\* 'festive' or 'holiday'; the generic prompt only when none of these apply.
C23_ConditionThenTime ==
    phase = "suggested" =>
        LET weather == context.weather
            time_of_day == context.time_of_day
            by_weather == weather.condition \in {"cold", "hot"}
            by_time == time_of_day \in TimeNames
        IN /\ by_weather => response.suggestion = "weather:" \o weather.condition
           /\ (~by_weather /\ by_time) => response.suggestion = "time:" \o time_of_day
           /\ response.suggestion = "festive" => (~by_weather /\ ~by_time /\ FestiveTags)
           /\ response.suggestion = "generic" => (~by_weather /\ ~by_time /\ ~FestiveTags)

\* C23, amended: the sentence for 'cold' or 'hot' is returned whatever the time of day
\* and tags; otherwise, when the season is 'summer' or 'winter', the season sentence is
\* returned; otherwise the sentence is chosen by time of day; the festive sentence is
\* returned only when neither weather nor time of day selects one and the tags contain
\* 'festive' or 'holiday'; the generic prompt only when none of these apply.
C23_WeatherThenTime ==
    phase = "suggested" =>
        LET weather == context.weather
            time_of_day == context.time_of_day
            by_condition == weather.condition \in {"cold", "hot"}
            by_season == ~by_condition /\ weather.season \in {"summer", "winter"}
            by_weather == by_condition \/ by_season
            by_time == time_of_day \in TimeNames
        IN /\ by_condition => response.suggestion = "weather:" \o weather.condition
           /\ by_season => response.suggestion = "season:" \o weather.season
           /\ (~by_weather /\ by_time) => response.suggestion = "time:" \o time_of_day
           /\ response.suggestion = "festive" <=> (~by_weather /\ ~by_time /\ FestiveTags)
           /\ response.suggestion = "generic" <=> (~by_weather /\ ~by_time /\ ~FestiveTags)

\* a mild summer at lunch time: the season sentence was returned
C23_Witness ==
    /\ phase = "suggested"
    /\ context.weather = [season |-> "summer", condition |-> "mild"]
    /\ context.time_of_day = "lunch"
    /\ response.suggestion = "season:summer"

\* C29: when weather comes from get_current_weather and time_of_day from
\* get_time_of_day, get_personalized_suggestion returns the 'cold' sentence, the 'hot'
\* sentence or one of the four time-of-day sentences, never a season sentence, the
\* festive sentence or the generic prompt, whatever the tags.
C29_ClockSuggestions ==
    (phase = "suggested" /\ clock # NoClock) =>
        /\ response.suggestion \in
               {"weather:cold", "weather:hot", "time:breakfast", "time:lunch",
                "time:dinner", "time:late night"}
        /\ response.suggestion \notin {"season:summer", "season:winter", "festive", "generic"}

\* a late night in April with the tag 'festive': the late-night sentence was returned
C29_Witness ==
    /\ phase = "suggested"
    /\ clock = [month |-> 4, hour |-> 23]
    /\ InList("festive", response.tags)
    /\ response.suggestion = "time:late night"

(***************************************************************************)
(* The order of the tests of the general handler, under SpecGeneral.       *)
(***************************************************************************)
\* the prefixes of the patterns ending in "(.+)", in their listed order
ListedPrefixes ==
    <<"directions from ", "how do i get there from ", "route from ", "navigate from ">>

\* whether a listed pattern matches q, and the trimmed capture group of the first one
\* that does
FirstCapture(q) ==
    LET hits == {i \in 1..Len(ListedPrefixes) : PrefixPlaces(q, ListedPrefixes[i]) # {}}
    IN IF hits # {}
       THEN [found |-> TRUE,
             text |-> Strip(PrefixCapture(q, ListedPrefixes[CHOOSE i \in hits :
                                                                \A j \in hits : i <= j]))]
       ELSE IF FromZipPlaces(q) # {} THEN [found |-> TRUE, text |-> Strip(FromZipCapture(q))]
       ELSE [found |-> FALSE, text |-> ""]

\* C24: _handle_general_inquiry tries the directions patterns in their listed order
\* first: if one matches, the response is a directions link whose origin is the trimmed
\* capture group of the first matching pattern, whatever keywords the query contains;
\* only if none matches is the whole trimmed query the location, and only when it is
\* exactly five digits or has the shape of a street address; otherwise the keyword
\* sub-branches are evaluated.
C24_PatternsThenLocationThenKeywords ==
    (phase = "handled" /\ handler = "_handle_general_inquiry") =>
        IF FirstCapture(query).found
        THEN /\ response.kind = "general:directions"
             /\ response.origin = FirstCapture(query).text
        ELSE IF zip_code_match(Strip(query)) \/ address_match(Strip(query))
        THEN /\ response.kind = "general:directions"
             /\ response.origin = Strip(query)
        ELSE /\ response.kind # "general:directions"
             /\ response.kind \in
                    {GeneralBranches[b].kind : b \in 1..Len(GeneralBranches)}
                        \cup {"general:help"}

\* a query matched by the first and by the third pattern: the origin is the capture of
\* the first
C24_Witness ==
    /\ phase = "handled"
    /\ handler = "_handle_general_inquiry"
    /\ query = "directions from A route from B"
    /\ response.kind = "general:directions"
    /\ response.origin = "A route from B"

====
